---- MODULE Spec2Model ----
(***************************************************************************)
(* Model of the Thunderbird native-messaging bridge host                   *)
(* (thunderbird_extension/native_host.py, class NativeHost): the           *)
(* filesystem job queue (jobs/, processing/, results/), the connection     *)
(* state, the in-flight table, the main poll loop, and the process lock.   *)
(***************************************************************************)
EXTENDS Integers, Sequences, FiniteSets, TLC

(***************************************************************************)
(* Bounds                                                                  *)
(***************************************************************************)
\* capacity of _incoming_queue explored by the model
MaxIncoming == 1
\* number of host stops explored by the model
MaxRestarts == 1
\* number of host processes started on the same queue root
NumHosts == 2

(***************************************************************************)
(* Values                                                                  *)
(***************************************************************************)
\* job ids; a job file named {id}.json is the canonical file of that id
Ids == {"a", "b"}
\* str(job.get("id") or "") of a job file that carries no id
NoId == ""
\* names of job files whose name differs from the id they carry
DupNames == {"d1"}
\* host processes, named by their PIDs; inodes the lock file may occupy
Hosts == 1..NumHosts
Inodes == 1..NumHosts
\* file names (without .json) that may appear in jobs/
FNames == Ids \cup DupNames

\* an absent field of a message, an absent file
None == "-"
NoJob == [id |-> None, src |-> None]
NoResult == [id |-> None, success |-> FALSE, error |-> None]
NoPath == [dir |-> None, name |-> None]
NoCur == [f |-> None, id |-> None, path |-> NoPath, job |-> NoJob, tries |-> 0]

\* the job written by the producer into file f: its id and its payload,
\* the payload being identified by the file it was written to
Job(f, i) == [id |-> i, src |-> f]
\* job files that are no job: text that is not JSON, and JSON that is not an
\* object (a list, a string, a number, null)
NotJsonFile == "<not json>"
NotDictFile == "<not a dict>"
BadKinds == {NotJsonFile, NotDictFile}

\* paths recorded in _inflight
ProcessingPath(i) == [dir |-> "processing", name |-> i]
JobPath(f) == [dir |-> "jobs", name |-> f]

\* error strings
PeerError == "E"
SendError == "OSError"

(***************************************************************************)
(* Inbound frames (the messages read_message delivers)                     *)
(***************************************************************************)
Frame(t, i, s, e, p) == [type |-> t, id |-> i, success |-> s, error |-> e, filePath |-> p]
Hello == Frame("hello", None, None, None, None)
ReplyOk(i) == Frame(None, i, "true", None, None)
ReplyErr(i) == Frame(None, i, None, PeerError, None)
GetFileData(p) == Frame("getFileData", "req", None, None, p)
Unknown == Frame("other", None, None, None, None)
\* local paths: a file named in the attachments of every job, another
\* existing file, an existing file that cannot be read, and no file
AllFilePaths == {"attached", "other", "unreadable", "missing"}
\* the paths the peer of the main specification asks for
FilePaths == {"other", "missing"}
NoFrame == Frame(None, None, None, None, None)
PeerFrames ==
  {Hello, Unknown} \cup {ReplyOk(i) : i \in Ids} \cup {ReplyErr(i) : i \in Ids}
    \cup {GetFileData(p) : p \in FilePaths}

(***************************************************************************)
(* Outbound frames (the messages handed to send_message)                   *)
(***************************************************************************)
OutFrame(t, i, s, e, d) ==
  [type |-> t, id |-> i, success |-> s, error |-> e, data |-> d]
NoOut == OutFrame(None, None, None, None, None)
\* {"type": "hello_ack", "ts": ...}
\* (variant: no reply to the handshake)
HelloAckMissing == NoOut
HelloAck == OutFrame("hello_ack", None, None, None, None)
\* msg = dict(job); msg["type"] = job.get("type") or "sendEmail"
JobFrame(job) == OutFrame("sendEmail", job.id, None, None, job.src)

\* payload.attachments of a job
Attachments(job) == IF job = NoJob THEN {} ELSE {"attached"}
\* os.path.exists(file_path); open(file_path, "rb") and read succeed
FileExists(p) == p # "missing"
\* (variant: every existing file can be read)
FileReadableAlways(p) == TRUE
FileReadable(p) == p \in {"attached", "other"}
\* base64.b64encode(f.read()).decode('utf-8')
FileData(p) == "base64:" \o p
\* the fileDataResponse frame sent for the getFileData request m
FileDataReply(m) ==
  IF FileExists(m.filePath)
  THEN IF FileReadable(m.filePath)
       THEN OutFrame("fileDataResponse", m.id, "true", None,
                     FileData(m.filePath))
       ELSE OutFrame("fileDataResponse", m.id, "false", "PermissionError",
                     None)
  ELSE OutFrame("fileDataResponse", m.id, "false", "File not found", None)

(***************************************************************************)
(* Socket channel (ThunderbirdExtensionClient): values                     *)
(***************************************************************************)
MaxRequests == 2
MaxTicks == 1
RequestIds == 1..MaxRequests
\* the coroutines that call _send_request_and_wait, possibly at once
Callers == {"send_email", "check_availability"}
\* a frame as _process_message sees it: its type, its requestId (0 when the
\* frame has none) and its error field (NoField when the frame has none)
NoField == "<absent>"
WsFrame(t, r, e) == [type |-> t, requestId |-> r, error |-> e]
NoWsFrame == WsFrame(None, 0, NoField)
ErrorTexts == {NoField, "", "send failed"}
\* frames that answer a request, and frames that carry no request id
ReplyFrames ==
  {WsFrame("sendResult", r, NoField) : r \in RequestIds}
    \cup {WsFrame("error", r, e) : r \in RequestIds, e \in ErrorTexts}
UnsolicitedFrames ==
  {WsFrame(t, 0, NoField) : t \in {"ping", "sendSuccess", "hello"}}
InFrames == ReplyFrames \cup UnsolicitedFrames
\* an entry of pending_requests: the event's flag, the result and the error
Entry(s, res, err) == [set |-> s, result |-> res, error |-> err]
NoEntry == Entry(FALSE, NoWsFrame, "<no entry>")
NewEntry == Entry(FALSE, NoWsFrame, None)
\* how a call of _send_request_and_wait ended: by a return or by a raise
Ret(k, f, e) == [kind |-> k, value |-> f, error |-> e]
NoRet == Ret("none", NoWsFrame, None)

(***************************************************************************)
(* Socket channel, listening: values                                       *)
(***************************************************************************)
MaxAttempts == 4
\* ports are counted from the preferred one (8765)
PreferredPort == 0
Ports == PreferredPort..(PreferredPort + MaxAttempts - 1)
NoPort == -1
\* the channel instances (application processes) that may listen at once
Instances == {"app1", "app2"}
NoProbe == [want |-> NoPort, quiet |-> FALSE]

VARIABLES
  jobs,          \* jobs/ : file name -> job or NoJob
  processing,    \* processing/ : id -> job or NoJob  (processing/{id}.json)
  results,       \* results/ : id -> result or NoResult (results/{id}.json)
  used,          \* file name -> id of the job the producer wrote to it, or None
  up,            \* a host process is running its poll loop
  pc,            \* position of the main thread in NativeHost.run
  connected,     \* self._connected
  inflight,      \* self._inflight : id -> path or NoPath
  incoming,      \* self._incoming_queue
  files,         \* the part of the listing `files` the scan has yet to visit
  cur,           \* locals of the loop body between the claim and the send
  restarts,      \* number of host stops so far
  seen,          \* history: kind of inbound frames this host has dispatched
  fwd,           \* history: files whose job frame this host has sent
  scanG,         \* history: facts about the scan in progress
  peerGot,       \* history: ids whose job frame reached the peer, from any host
  ev,            \* history: the operation performed by the last step
  out,           \* history: the frame the last step handed to send_message
  sok,           \* history: what send_message returned in the last step
  hpc,           \* process lock: host process -> its position
  lockPath,      \* process lock: inode linked at native_host.lock, 0 if none
  inoContent,    \* process lock: inode -> PID written in it, 0 if empty
  flockHolder,   \* process lock: inode -> host holding its flock, 0 if none
  fd,            \* process lock: host -> inode of self._lock_file, 0 if none
  cleanups,      \* process lock: host -> runs of _cleanup still to come
  lockG,         \* history: host -> what its startup found and how it ended
  script,        \* codec: the frames the peer writes on the host's stdin
  tosend,        \* codec: the frames the peer has yet to write
  wbuf,          \* codec: the bytes of the frame being written, yet to go
  pipe,          \* codec: bytes written to stdin and not yet read
  eof,           \* codec: the peer has closed its end
  rpc,           \* codec: position of read_message ("prefix" or "body")
  need,          \* codec: bytes_to_read
  data,          \* codec: data
  delivered,     \* codec: the messages stdin_reader has appended, in order
  rpos,          \* history: number of bytes read_message has consumed
  cev,           \* history: the outcome of the last read step
  request_id,    \* channel: self.request_id
  pending_requests, \* channel: self.pending_requests : id -> entry or NoEntry
  is_connected,  \* channel: self.connected and self.websocket is not None
  cpc,           \* channel: caller -> its position in _send_request_and_wait
  rid,           \* channel: caller -> its local request_id, 0 before the call
  elapsed,       \* channel: caller -> time spent in asyncio.wait_for
  ret,           \* channel: caller -> how its call ended
  chev,          \* history: the last step of the channel
  chout,         \* history: the frame the last channel step sent
  chin,          \* history: the frame the last channel step processed
  taken,         \* listen: the ports other programs have bound
  lpc,           \* listen: channel instance -> position in start_websocket_server
  port,          \* listen: channel instance -> self.port
  lG,            \* history: instance -> what its probe saw, and changes since
  rfile,         \* wait: id -> what results/{id}.json holds
  hwr,           \* wait: id -> position of the host's write of the result
  wpc,           \* wait: id -> position of the producer's awaitResult
  polls,         \* wait: id -> poll intervals the producer has slept
  wres,          \* wait: id -> what awaitResult returned
  wseen,         \* history: id -> the producer has read the file incomplete
  wev,           \* history: the last step of the wait
  torn,          \* history: files a scan has read while they were being written
  lst            \* channel: the frame the server thread's handler is resolving

qvars == <<jobs, processing, results, used, up, pc, connected, inflight,
           incoming, files, cur, restarts, seen, fwd, scanG, peerGot, ev, out,
           sok>>
lockVars == <<hpc, lockPath, inoContent, flockHolder, fd, cleanups, lockG>>
codecVars == <<script, tosend, wbuf, pipe, eof, rpc, need, data, delivered,
               rpos, cev>>
chanVars == <<request_id, pending_requests, is_connected, cpc, rid, elapsed,
              ret, chev, chout, chin>>
portVars == <<taken, lpc, port, lG>>
waitVars == <<rfile, hwr, wpc, polls, wres, wseen, wev>>
raceVars == <<torn, lst>>
extVars == <<codecVars, chanVars, portVars, waitVars, raceVars>>
vars == <<qvars, lockVars, extVars>>

store == <<jobs, processing, results>>
hist == <<seen, fwd, scanG, peerGot>>

InFlightIds == {i \in Ids : inflight[i] # NoPath}

\* history of the scan in progress: `on` while the scan is the first one
\* after a hello frame was dispatched, started with eligible files and has
\* met no failed rename, failed send or vanished file so far, and then the
\* files it listed, the job frames it sent per id and the ids in flight when
\* it began; between scans, `hello` tells that a hello frame was dispatched
\* since the last scan
NoScan == [on |-> FALSE, hello |-> FALSE, listed |-> {},
           sent |-> [i \in Ids |-> 0], inflight0 |-> {}]
AfterHello == [NoScan EXCEPT !.hello = TRUE]

(***************************************************************************)
(* Construction: NativeHost.__init__                                       *)
(***************************************************************************)
\* history of a host's startup: what it found at native_host.lock ("absent",
\* "invalid", "stale", "live"), whether no other host process was alive from
\* its check of the lock file to the end of its startup, and how the host
\* ended up ("acquired", "refused", and "released" after a clean shutdown),
\* and whether some host had completed a clean shutdown before its check
NoStartup == [found |-> "none", alone |-> TRUE, out |-> "none",
              after |-> FALSE]

\* what results/{id}.json holds: nothing, the file open(path, "w") has
\* created and json.dump has not filled yet, or the result
NoFile == [state |-> "absent", success |-> FALSE]
PartialFile == [state |-> "partial", success |-> FALSE]
FullFile(s) == [state |-> "full", success |-> s]
NoWaitEvent == [id |-> None, kind |-> None]

\* the handler of the server thread is between two frames
NoListen == [frame |-> [type |-> None, requestId |-> 0, error |-> "<absent>"],
             stage |-> "idle"]

InitConnected == FALSE
InitInflight == [i \in Ids |-> NoPath]

Init ==
  /\ jobs = [f \in FNames |-> NoJob]
  /\ processing = [i \in Ids |-> NoJob]
  /\ results = [i \in Ids |-> NoResult]
  /\ used = [f \in FNames |-> None]
  /\ up = TRUE
  /\ pc = "drain"
  /\ connected = InitConnected
  /\ inflight = InitInflight
  /\ incoming = <<>>
  /\ files = {}
  /\ cur = NoCur
  /\ restarts = 0
  /\ seen = "none"
  /\ fwd = {}
  /\ scanG = NoScan
  /\ peerGot = {}
  /\ ev = None
  /\ out = NoOut
  /\ sok = None
  /\ hpc = [h \in Hosts |-> "off"]
  /\ lockPath = 0
  /\ inoContent = [n \in Inodes |-> 0]
  /\ flockHolder = [n \in Inodes |-> 0]
  /\ fd = [h \in Hosts |-> 0]
  /\ cleanups = [h \in Hosts |-> 0]
  /\ lockG = [h \in Hosts |-> NoStartup]
  /\ script = <<>>
  /\ tosend = <<>>
  /\ wbuf = <<>>
  /\ pipe = <<>>
  /\ eof = FALSE
  /\ rpc = "idle"
  /\ need = 0
  /\ data = <<>>
  /\ delivered = <<>>
  /\ rpos = 0
  /\ cev = None
  /\ request_id = 0
  /\ pending_requests = [r \in RequestIds |-> NoEntry]
  /\ is_connected = FALSE
  /\ cpc = [c \in Callers |-> "idle"]
  /\ rid = [c \in Callers |-> 0]
  /\ elapsed = [c \in Callers |-> 0]
  /\ ret = [c \in Callers |-> NoRet]
  /\ chev = None
  /\ chout = NoWsFrame
  /\ chin = NoWsFrame
  /\ taken = {}
  /\ lpc = [i \in Instances |-> "idle"]
  /\ port = [i \in Instances |-> PreferredPort]
  /\ lG = [i \in Instances |-> NoProbe]
  /\ rfile = [i \in Ids |-> NoFile]
  /\ hwr = [i \in Ids |-> "idle"]
  /\ wpc = [i \in Ids |-> "idle"]
  /\ polls = [i \in Ids |-> 0]
  /\ wres = [i \in Ids |-> None]
  /\ wseen = [i \in Ids |-> FALSE]
  /\ wev = NoWaitEvent
  /\ torn = {}
  /\ lst = NoListen

(***************************************************************************)
(* The producer (JobStore.enqueue, result consumption, job withdrawal)     *)
(***************************************************************************)
\* ids a file name may carry: {id}.json carries id; other names carry any
IdsFor(f) == IF f \in Ids THEN {f} ELSE Ids \cup {NoId}

Enqueue(f, i) ==
  /\ used[f] = None
  /\ i \in IdsFor(f)
  /\ jobs' = [jobs EXCEPT ![f] = Job(f, i)]
  /\ used' = [used EXCEPT ![f] = i]
  /\ ev' = None
  /\ out' = NoOut /\ sok' = None
  /\ UNCHANGED <<processing, results, up, pc, connected, inflight, incoming,
                 files, cur, restarts, hist, lockVars, extVars>>

\* a file that is no job appears in jobs/
EnqueueBad(f, k) ==
  /\ used[f] = None
  /\ f \notin Ids
  /\ jobs' = [jobs EXCEPT ![f] = Job(f, k)]
  /\ used' = [used EXCEPT ![f] = k]
  /\ ev' = None
  /\ out' = NoOut /\ sok' = None
  /\ UNCHANGED <<processing, results, up, pc, connected, inflight, incoming,
                 files, cur, restarts, hist, lockVars, extVars>>

\* the producer reads a result file and removes it
ConsumeResult(i) ==
  /\ results[i] # NoResult
  /\ results' = [results EXCEPT ![i] = NoResult]
  /\ ev' = None
  /\ out' = NoOut /\ sok' = None
  /\ UNCHANGED <<jobs, processing, used, up, pc, connected, inflight,
                 incoming, files, cur, restarts, hist, lockVars, extVars>>

\* the producer removes a job file it created
WithdrawJob(f) ==
  /\ jobs[f] # NoJob
  /\ jobs' = [jobs EXCEPT ![f] = NoJob]
  /\ ev' = None
  /\ out' = NoOut /\ sok' = None
  /\ UNCHANGED <<processing, results, used, up, pc, connected, inflight,
                 incoming, files, cur, restarts, hist, lockVars, extVars>>

(***************************************************************************)
(* NativeHost.stdin_reader: the reader thread appends a decoded frame      *)
(***************************************************************************)
StdinRead(m) ==
  /\ up
  /\ Len(incoming) < MaxIncoming
  /\ incoming' = Append(incoming, m)
  /\ ev' = None
  /\ out' = NoOut /\ sok' = None
  /\ UNCHANGED <<store, used, up, pc, connected, inflight, files, cur,
                 restarts, hist, lockVars, extVars>>

(***************************************************************************)
(* NativeHost.send_message: the effect of a send with outcome ok           *)
(***************************************************************************)
\* (variant: a failed send leaves the connection state as it was)
SendConnectedKept(ok, c) == c
SendConnected(ok, c) == IF ok THEN c ELSE FALSE
\* the value send_message returns
SendOutcome(ok) == IF ok THEN "True" ELSE "False"
\* self._last_send_error after a send with outcome ok
SendLastError(ok) == IF ok THEN None ELSE SendError

(***************************************************************************)
(* NativeHost.handle_incoming                                              *)
(***************************************************************************)
\* "id" in msg and ("success" in msg or "error" in msg)
\* (variant: any frame with an id is taken for a result)
IsResultFrameAnyId(m) == m.id # None
IsResultFrame(m) == m.id # None /\ (m.success # None \/ m.error # None)
\* the result written for a result frame
ResultOf(m) ==
  [id |-> m.id, success |-> (m.success = "true"),
   error |-> IF m.error # None THEN m.error ELSE None]
\* open(result_path, "w") + json.dump: the file holds r afterwards
WriteResult(res, i, r) == [res EXCEPT ![i] = r]
\* os.remove(path) if the path exists
RemoveFromJobs(j, path) ==
  IF path.dir = "jobs" THEN [j EXCEPT ![path.name] = NoJob] ELSE j
\* (variant: the processing file is left behind)
RemoveFromProcessingKept(p, path) == p
RemoveFromProcessing(p, path) ==
  IF path.dir = "processing" THEN [p EXCEPT ![path.name] = NoJob] ELSE p
\* (variant: only a handshake leaves the host connected)
ConnectedOnFrameHelloOnly(m, c) == m.type = "hello"
\* the connection state handle_incoming sets on entry, for any frame
ConnectedOnFrame(m, c) == TRUE
SeenAfter(m) ==
  IF m.type = "hello" THEN "hello" ELSE IF seen = "none" THEN "other" ELSE seen

\* (variant: the entry of an answered job stays)
InflightAfterResultKept(i) == inflight
\* self._inflight.pop(job_id, None)
InflightAfterResult(i) == [inflight EXCEPT ![i] = NoPath]

\* (variant: a result whose write failed counts as written)
ResultsAfterWriteAlways(wrOk, res, i, r) == WriteResult(res, i, r)
\* results/ after the handler's attempt to write r, open() raising when
\* wrOk is false
ResultsAfterWrite(wrOk, res, i, r) ==
  IF wrOk THEN WriteResult(res, i, r) ELSE res

\* sendOk: whether the reply the handler sends, if it sends one, gets out;
\* wrOk: whether the result file the handler writes, if any, can be written
DispatchStep(sendOk, wrOk) ==
  /\ up /\ pc = "drain" /\ incoming # <<>>
  /\ LET m == Head(incoming) IN
     /\ incoming' = Tail(incoming)
     /\ seen' = SeenAfter(m)
     /\ IF IsResultFrame(m)
        THEN LET path == inflight[m.id] IN
             /\ inflight' = InflightAfterResult(m.id)
             /\ results' = ResultsAfterWrite(wrOk, results, m.id, ResultOf(m))
             /\ jobs' = RemoveFromJobs(jobs, path)
             /\ processing' = RemoveFromProcessing(processing, path)
             /\ connected' = ConnectedOnFrame(m, connected)
             /\ ev' = IF wrOk THEN "result" ELSE "result_unwritten"
             /\ out' = NoOut /\ sok' = None
             /\ sendOk
             /\ UNCHANGED scanG
        ELSE IF m.type \in {"hello", "getFileData"}
        THEN /\ wrOk
             /\ connected' =
                  SendConnected(sendOk, ConnectedOnFrame(m, connected))
             /\ ev' = IF m.type = "hello" THEN "hello" ELSE "getFileData"
             /\ out' = IF m.type = "hello" THEN HelloAck ELSE FileDataReply(m)
             /\ sok' = SendOutcome(sendOk)
             /\ scanG' = IF m.type = "hello" THEN AfterHello ELSE scanG
             /\ UNCHANGED <<store, inflight>>
        ELSE /\ connected' = ConnectedOnFrame(m, connected)
             /\ ev' = "unhandled"
             /\ out' = NoOut /\ sok' = None
             /\ sendOk /\ wrOk
             /\ UNCHANGED <<store, inflight, scanG>>
  /\ UNCHANGED <<used, up, pc, files, cur, restarts, fwd, peerGot, lockVars, extVars>>

\* the handler on a filesystem where the result file can be written
Dispatch(sendOk) == DispatchStep(sendOk, TRUE)

(***************************************************************************)
(* NativeHost.scan_and_forward_jobs, one step per statement group          *)
(***************************************************************************)
\* (variant: the scan runs whatever the connection state)
ScanGateOpen(c) == TRUE
\* "if not self._connected: return"
ScanGate(c) == c
\* os.listdir(self.jobs_dir)
ListJobs == {f \in FNames : jobs[f] # NoJob}
\* (variant: the in-flight check is missing)
SkipInFlightNever(i) == FALSE
\* "if job_id in self._inflight: continue"
SkipInFlight(i) == inflight[i] # NoPath
\* (variant: the existing-result check is missing)
ResultExistsNever(i) == FALSE
\* "if os.path.exists(result_path)": the duplicate is removed unprocessed
ResultExists(i) == results[i] # NoResult
\* the listed files are well-formed jobs of distinct ids, none of them
\* in flight or already answered
Eligible(L) ==
  /\ \A f \in L : jobs[f].id \in Ids /\ inflight[jobs[f].id] = NoPath
                  /\ results[jobs[f].id] = NoResult
  /\ \A f, g \in L : jobs[f].id = jobs[g].id => f = g

\* (variant: the job file is copied, not moved)
JobsAfterReplaceCopied(j, f) == j
\* os.replace(job_path, processing_path): jobs/ afterwards
JobsAfterReplace(j, f) == [j EXCEPT ![f] = NoJob]

\* the drain loop found the queue empty; the scan begins (or is suppressed)
ScanStart ==
  /\ up /\ pc = "drain" /\ incoming = <<>>
  /\ IF ScanGate(connected)
     THEN /\ files' = ListJobs
          /\ pc' = "loop"
          /\ scanG' = IF scanG.hello /\ Eligible(ListJobs)
                      THEN [on |-> TRUE, hello |-> FALSE, listed |-> ListJobs,
                            sent |-> [i \in Ids |-> 0],
                            inflight0 |-> InFlightIds]
                      ELSE NoScan
          /\ ev' = "scan_start"
          /\ out' = NoOut /\ sok' = None
     ELSE /\ UNCHANGED <<files, pc>>
          /\ scanG' = NoScan
          /\ ev' = "scan_skip"
          /\ out' = NoOut /\ sok' = None
  /\ UNCHANGED <<store, used, up, connected, inflight, incoming, cur,
                 restarts, seen, fwd, peerGot, lockVars, extVars>>

\* (variant: one attempt too many)
RenameAttemptsSix == 5 + 1
\* "for attempt in range(5)"
RenameAttempts == 5
\* the retry loop around os.replace, from attempt number `attempt` on, when
\* the first `fails` calls raise: whether the file was moved, and the number
\* of calls made
RECURSIVE RenameLoop(_, _)
RenameLoop(attempt, fails) ==
  IF attempt >= RenameAttempts
  THEN [moved |-> FALSE, tries |-> attempt]
  ELSE IF attempt >= fails
  THEN [moved |-> TRUE, tries |-> attempt + 1]
  ELSE IF attempt < RenameAttempts - 1
  THEN RenameLoop(attempt + 1, fails)
  ELSE [moved |-> FALSE, tries |-> attempt + 1]
\* numbers of failing os.replace calls: none, or every one
RenameWorksOrNot == {0, RenameAttempts}
\* job.get raises on JSON that is not an object: the exception leaves the
\* loop and is caught at the end of scan_and_forward_jobs
AbortsScan(job) == job.id = NotDictFile

\* loop body up to the claim: read the job, the duplicate checks, the move;
\* Fails: the numbers of failing os.replace calls the filesystem may produce
ScanStep(f, Fails) ==
  /\ up /\ pc = "loop" /\ f \in files
  /\ files' = IF AbortsScan(jobs[f]) THEN {} ELSE files \ {f}
  /\ out' = NoOut /\ sok' = None
  /\ LET job == jobs[f]
         i == job.id
     IN
     IF job = NoJob
     THEN \* open() fails: the file vanished after the listing
          /\ ev' = "vanished"
          /\ scanG' = NoScan
          /\ UNCHANGED <<store, pc, cur>>
     ELSE IF i = NotJsonFile
     THEN /\ ev' = "badjson"
          /\ UNCHANGED <<store, pc, cur, scanG>>
     ELSE IF i = NotDictFile
     THEN /\ ev' = "scan_abort"
          /\ UNCHANGED <<store, pc, cur, scanG>>
     ELSE IF i = NoId
     THEN /\ ev' = "noid"
          /\ UNCHANGED <<store, pc, cur, scanG>>
     ELSE IF ResultExists(i)
     THEN /\ jobs' = [jobs EXCEPT ![f] = NoJob]
          /\ ev' = "dedupe"
          /\ UNCHANGED <<processing, results, pc, cur, scanG>>
     ELSE IF SkipInFlight(i)
     THEN /\ ev' = "inflight_skip"
          /\ UNCHANGED <<store, pc, cur, scanG>>
     ELSE \E fails \in Fails :
          /\ IF RenameLoop(0, fails).moved
             THEN /\ processing' = [processing EXCEPT ![i] = jobs[f]]
                  /\ jobs' = JobsAfterReplace(jobs, f)
                  /\ cur' = [f |-> f, id |-> i, path |-> ProcessingPath(i),
                             job |-> job, tries |-> RenameLoop(0, fails).tries]
                  /\ UNCHANGED scanG
             ELSE \* every os.replace attempt failed: process in place
                  /\ processing' = [processing EXCEPT ![i] = NoJob]
                  /\ cur' = [f |-> f, id |-> i, path |-> JobPath(f),
                             job |-> job, tries |-> RenameLoop(0, fails).tries]
                  /\ scanG' = NoScan
                  /\ UNCHANGED jobs
          /\ pc' = "send"
          /\ ev' = "claim"
          /\ UNCHANGED results
  /\ UNCHANGED <<used, up, connected, inflight, incoming, restarts, seen, fwd,
                 peerGot, lockVars, extVars>>

\* the loop body on a filesystem where a rename works at once or never
ScanFile(f) == ScanStep(f, RenameWorksOrNot)

\* the result written when the send fails
SendFailedResult(i) ==
  [id |-> i, success |-> FALSE,
   error |-> "Send failed: " \o SendLastError(FALSE)]
\* (variant: the forwarded job is not recorded)
InflightAfterSendLost(ok) == inflight
\* InFlightTable after the send of the job claimed as cur
InflightAfterSend(ok) ==
  IF ok THEN [inflight EXCEPT ![cur.id] = cur.path] ELSE inflight

\* loop body from the send on; ok: whether the job frame gets out; wrOk:
\* whether the failure result, if one is written, can be written
SendStep(ok, wrOk) ==
  /\ up /\ pc = "send"
  /\ /\ connected' = SendConnected(ok, connected)
     /\ inflight' = InflightAfterSend(ok)
     /\ IF ok
        THEN /\ fwd' = fwd \cup {cur.f}
             /\ peerGot' = peerGot \cup {cur.id}
             /\ scanG' = IF scanG.on
                         THEN [scanG EXCEPT !.sent[cur.id] = @ + 1]
                         ELSE scanG
             /\ ev' = "sent"
             /\ wrOk
             /\ UNCHANGED store
        ELSE /\ results' = ResultsAfterWrite(wrOk, results, cur.id,
                                             SendFailedResult(cur.id))
             /\ jobs' = RemoveFromJobs(jobs, cur.path)
             /\ processing' = RemoveFromProcessing(processing, cur.path)
             /\ scanG' = NoScan
             /\ ev' = IF wrOk THEN "send_failed" ELSE "send_failed_unwritten"
             /\ UNCHANGED <<fwd, peerGot>>
  /\ out' = JobFrame(cur.job)
  /\ sok' = SendOutcome(ok)
  /\ pc' = "loop"
  /\ cur' = NoCur
  /\ UNCHANGED <<used, up, incoming, files, restarts, seen, lockVars, extVars>>

\* the send on a filesystem where the result file can be written
Send(ok) == SendStep(ok, TRUE)

DispatchIncoming == \E ok \in BOOLEAN : Dispatch(ok)
ScanSend == \E ok \in BOOLEAN : Send(ok)

\* the listing is exhausted: sleep, then drain again
ScanEnd ==
  /\ up /\ pc = "loop" /\ files = {}
  /\ pc' = "drain"
  /\ scanG' = NoScan
  /\ ev' = "scan_end"
  /\ out' = NoOut /\ sok' = None
  /\ UNCHANGED <<store, used, up, connected, inflight, incoming, files, cur,
                 restarts, seen, fwd, peerGot, lockVars, extVars>>

(***************************************************************************)
(* The host process ends (shutdown or crash) and a new one is started      *)
(***************************************************************************)
HostStop ==
  /\ up /\ restarts < MaxRestarts
  /\ up' = FALSE
  /\ restarts' = restarts + 1
  /\ pc' = "off"
  /\ connected' = InitConnected
  /\ inflight' = InitInflight
  /\ incoming' = <<>>
  /\ files' = {}
  /\ cur' = NoCur
  /\ seen' = "none"
  /\ fwd' = {}
  /\ scanG' = NoScan
  /\ ev' = None
  /\ out' = NoOut /\ sok' = None
  /\ UNCHANGED <<store, used, peerGot, lockVars, extVars>>

HostStart ==
  /\ ~up
  /\ up' = TRUE
  /\ pc' = "drain"
  /\ ev' = None
  /\ out' = NoOut /\ sok' = None
  /\ UNCHANGED <<store, used, connected, inflight, incoming, files, cur,
                 restarts, hist, lockVars, extVars>>

Producer ==
  \E f \in FNames, i \in Ids \cup {NoId} : Enqueue(f, i)

Host ==
  \/ DispatchIncoming
  \/ ScanStart
  \/ \E f \in FNames : ScanFile(f)
  \/ ScanSend
  \/ ScanEnd

Next ==
  \/ Producer
  \/ \E m \in PeerFrames : StdinRead(m)
  \/ Host

Spec == Init /\ [][Next]_vars

(***************************************************************************)
(* The host with a peer that handshakes and asks for local files           *)
(***************************************************************************)
NextFile ==
  \/ Producer
  \/ StdinRead(Hello)
  \/ \E p \in AllFilePaths : StdinRead(GetFileData(p))
  \/ Host

SpecFile == Init /\ [][NextFile]_vars

(***************************************************************************)
(* The host with a peer that sends frames the host does not know           *)
(***************************************************************************)
\* the handshake and frames that are neither a result, a handshake nor a
\* request for a file: another type, with an id or without, and success or
\* error without an id
OddFrames ==
  {Hello, Unknown, Frame(None, None, "true", None, None),
   Frame("other", None, None, PeerError, None)}
    \cup {Frame("other", i, None, None, None) : i \in Ids}

NextOdd ==
  \/ Producer
  \/ \E m \in OddFrames : StdinRead(m)
  \/ Host

SpecOdd == Init /\ [][NextOdd]_vars

(***************************************************************************)
(* The host on a faulty filesystem: files in jobs/ that are no jobs,       *)
(* renames that fail any number of times, result files that cannot be      *)
(* written                                                                 *)
(***************************************************************************)
\* the frames of the peer: the handshake, a request for a file and the
\* answers to jobs
FaultyPeerFrames ==
  {Hello, GetFileData("unreadable")} \cup {ReplyOk(i) : i \in Ids}

NextFaulty ==
  \/ Producer
  \/ \E f \in FNames, k \in BadKinds : EnqueueBad(f, k)
  \/ \E m \in FaultyPeerFrames : StdinRead(m)
  \/ \E ok \in BOOLEAN, wrOk \in BOOLEAN : DispatchStep(ok, wrOk)
  \/ ScanStart
  \/ \E f \in FNames : ScanStep(f, 0..RenameAttempts)
  \/ \E ok \in BOOLEAN, wrOk \in BOOLEAN : SendStep(ok, wrOk)
  \/ ScanEnd

SpecFaulty == Init /\ [][NextFaulty]_vars

(***************************************************************************)
(* Hosts that stop and restart, with a peer that handshakes with every     *)
(* host and answers every job frame it has received                        *)
(***************************************************************************)
PeerHello == ~connected /\ StdinRead(Hello)
PeerAnswer(i) ==
  i \in peerGot /\ results[i] = NoResult /\ StdinRead(ReplyOk(i))

\* the main thread over a transport on which every send succeeds
HostLive ==
  \/ Dispatch(TRUE)
  \/ ScanStart
  \/ \E f \in FNames : ScanFile(f)
  \/ Send(TRUE)
  \/ ScanEnd

NextLive ==
  \/ Producer
  \/ PeerHello
  \/ \E i \in Ids : PeerAnswer(i)
  \/ HostLive
  \/ HostStop
  \/ HostStart

\* the main thread keeps running, a stopped host is started again, and the
\* peer's frames keep arriving
Fairness ==
  /\ WF_vars(HostLive)
  /\ WF_vars(HostStart)
  /\ SF_vars(PeerHello)
  /\ \A i \in Ids : SF_vars(PeerAnswer(i))

SpecLive == Init /\ [][NextLive]_vars /\ Fairness

\* the same, with the producer consuming results and withdrawing jobs
NextEnv ==
  \/ Next
  \/ \E i \in Ids : ConsumeResult(i)
  \/ \E f \in FNames : WithdrawJob(f)
SpecEnv == Init /\ [][NextEnv]_vars

(***************************************************************************)
(* The scan beside a producer that is writing and removing job files:      *)
(* scan_and_forward_jobs with the read of a job file and its claim as      *)
(* separate steps                                                          *)
(***************************************************************************)
\* 'with open(job_path, "w") as f': the producer has created {id}.json and
\* has not written all of it; what is there does not parse
EnqueueBegin(f) ==
  /\ f \in Ids /\ used[f] = None
  /\ jobs' = [jobs EXCEPT ![f] = Job(f, NotJsonFile)]
  /\ used' = [used EXCEPT ![f] = f]
  /\ ev' = None
  /\ out' = NoOut /\ sok' = None
  /\ UNCHANGED <<processing, results, up, pc, connected, inflight, incoming,
                 files, cur, restarts, hist, lockVars, extVars>>

\* json.dump and the close of the file: the job is complete
EnqueueEnd(f) ==
  /\ jobs[f] = Job(f, NotJsonFile) /\ used[f] = f
  /\ jobs' = [jobs EXCEPT ![f] = Job(f, f)]
  /\ ev' = None
  /\ out' = NoOut /\ sok' = None
  /\ UNCHANGED <<processing, results, used, up, pc, connected, inflight,
                 incoming, files, cur, restarts, hist, lockVars, extVars>>

\* (variant: whatever the file holds is taken for a job)
ParsesAnything(job) == TRUE
\* json.load(f) returns: the file holds a complete JSON text
Parses(job) == job.id # NotJsonFile

\* loop body up to "continue" or to the duplicate checks: open the listed
\* file and json.load it, job.get("id")
ScanOpen(f) ==
  /\ up /\ pc = "loop" /\ f \in files
  /\ files' = IF AbortsScan(jobs[f]) THEN {} ELSE files \ {f}
  /\ out' = NoOut /\ sok' = None
  /\ LET job == jobs[f] IN
     IF job = NoJob
     THEN \* open() fails: the file vanished after the listing
          /\ ev' = "vanished"
          /\ scanG' = NoScan
          /\ UNCHANGED <<pc, cur, torn>>
     ELSE IF ~Parses(job)
     THEN /\ ev' = "badjson"
          /\ torn' = IF used[f] = f THEN torn \cup {f} ELSE torn
          /\ UNCHANGED <<pc, cur, scanG>>
     ELSE IF job.id = NotDictFile
     THEN /\ ev' = "scan_abort"
          /\ UNCHANGED <<pc, cur, scanG, torn>>
     ELSE IF job.id = NoId
     THEN /\ ev' = "noid"
          /\ UNCHANGED <<pc, cur, scanG, torn>>
     ELSE /\ cur' = [f |-> f, id |-> job.id, path |-> NoPath, job |-> job,
                     tries |-> 0]
          /\ pc' = "claim"
          /\ ev' = "open"
          /\ UNCHANGED <<scanG, torn>>
  /\ UNCHANGED <<store, used, up, connected, inflight, incoming, restarts,
                 seen, fwd, peerGot, lockVars, codecVars, chanVars, portVars,
                 waitVars, lst>>

\* (variant: the fallback does not look for the file)
JobFileExistsAlways(f) == TRUE
\* "if os.path.exists(job_path)" after the retry loop
JobFileExists(f) == jobs[f] # NoJob

\* loop body from the duplicate checks to the claim, for the job read from
\* cur.f; os.replace raises at every attempt when the file is gone
ScanClaim(Fails) ==
  /\ up /\ pc = "claim"
  /\ out' = NoOut /\ sok' = None
  /\ LET f == cur.f
         i == cur.id
     IN
     IF ResultExists(i)
     THEN /\ jobs' = [jobs EXCEPT ![f] = NoJob]
          /\ ev' = "dedupe"
          /\ pc' = "loop"
          /\ cur' = NoCur
          /\ UNCHANGED <<processing, results, scanG>>
     ELSE IF SkipInFlight(i)
     THEN /\ ev' = "inflight_skip"
          /\ pc' = "loop"
          /\ cur' = NoCur
          /\ UNCHANGED <<store, scanG>>
     ELSE \E fails \in Fails :
          LET r == IF jobs[f] = NoJob THEN RenameLoop(0, RenameAttempts)
                   ELSE RenameLoop(0, fails)
          IN
          IF r.moved
          THEN /\ processing' = [processing EXCEPT ![i] = jobs[f]]
               /\ jobs' = JobsAfterReplace(jobs, f)
               /\ cur' = [cur EXCEPT !.path = ProcessingPath(i),
                                     !.tries = r.tries]
               /\ pc' = "send"
               /\ ev' = "claim"
               /\ UNCHANGED <<results, scanG>>
          ELSE \* the stale processing file was removed before the loop
               /\ processing' = [processing EXCEPT ![i] = NoJob]
               /\ scanG' = NoScan
               /\ UNCHANGED <<jobs, results>>
               /\ IF JobFileExists(f)
                  THEN /\ cur' = [cur EXCEPT !.path = JobPath(f),
                                             !.tries = r.tries]
                       /\ pc' = "send"
                       /\ ev' = "claim"
                  ELSE /\ cur' = NoCur
                       /\ pc' = "loop"
                       /\ ev' = "disappeared"
  /\ UNCHANGED <<used, up, connected, inflight, incoming, files, restarts,
                 seen, fwd, peerGot, lockVars, extVars>>

\* the main thread, scanning in two steps
HostRace ==
  \/ Dispatch(TRUE)
  \/ ScanStart
  \/ \E f \in FNames : ScanOpen(f)
  \/ ScanClaim(RenameWorksOrNot)
  \/ ScanEnd

NextRace ==
  \/ \E f \in Ids : EnqueueBegin(f)
  \/ \E f \in Ids : EnqueueEnd(f)
  \/ \E f \in Ids : WithdrawJob(f)
  \/ StdinRead(Hello)
  \/ \E i \in Ids : StdinRead(ReplyOk(i))
  \/ HostRace
  \/ ScanSend

SpecRace == Init /\ [][NextRace]_vars

\* the same with a producer that leaves its job files alone, a peer that
\* handshakes and answers, and a transport on which every send succeeds
NextWrite ==
  \/ \E f \in Ids : EnqueueBegin(f)
  \/ \E f \in Ids : EnqueueEnd(f)
  \/ PeerHello
  \/ \E i \in Ids : PeerAnswer(i)
  \/ HostRace
  \/ Send(TRUE)

\* the main thread keeps running, the producer ends a write it has begun,
\* and the peer's handshake arrives
FairWrite ==
  /\ WF_vars(HostRace \/ Send(TRUE))
  /\ \A f \in Ids : WF_vars(EnqueueEnd(f))
  /\ SF_vars(PeerHello)

SpecWrite == Init /\ [][NextWrite]_vars /\ FairWrite

(***************************************************************************)
(* The process lock (POSIX branch): NativeHost._acquire_process_lock,      *)
(* _release_process_lock, _cleanup, _signal_handler                        *)
(***************************************************************************)
\* (variant: the probe never finds the process)
AliveNever(p) == FALSE
\* os.kill(pid, 0) succeeds: the process exists
Alive(p) == p \in Hosts /\ hpc[p] \notin {"off", "done"}
RunningHosts == {h \in Hosts : hpc[h] = "running"}
\* an inode that is neither linked nor open
FreeInode == CHOOSE n \in Inodes : n # lockPath /\ \A h \in Hosts : fd[h] # n
\* the process ends: its descriptor is closed, which drops its flock
CloseFd(h) == [n \in Inodes |-> IF flockHolder[n] = h THEN 0 ELSE flockHolder[n]]

\* what a starting host finds at native_host.lock
LockFound ==
  IF lockPath = 0 THEN "absent"
  ELSE IF inoContent[lockPath] = 0 THEN "invalid"
  ELSE IF Alive(inoContent[lockPath]) THEN "live"
  ELSE "stale"
InStartup(h) == hpc[h] \in {"check", "remove", "open", "flock"}

\* the host process is launched and enters __init__
HostLaunch(h) ==
  /\ hpc[h] = "off"
  /\ hpc' = [hpc EXCEPT ![h] = "check"]
  /\ lockG' = [g \in Hosts |->
                 IF g # h /\ InStartup(g)
                 THEN [lockG[g] EXCEPT !.alone = FALSE] ELSE lockG[g]]
  /\ UNCHANGED <<qvars, extVars, lockPath, inoContent, flockHolder, fd, cleanups>>

\* (variant: an existing lock file always refuses the start)
LockDecisionAlwaysRefuse ==
  IF lockPath = 0 THEN "open" ELSE "refuse"
\* what the check of an existing lock file decides: "refuse" when the PID
\* it names is alive, "remove" when the PID is dead or the content is not a
\* PID, "open" when there is no lock file
LockDecision ==
  IF lockPath = 0 THEN "open"
  ELSE IF inoContent[lockPath] = 0 THEN "remove"
  ELSE IF Alive(inoContent[lockPath]) THEN "refuse"
  ELSE "remove"

\* "if os.path.exists(lock_path)": read the PID and probe it; on "refuse"
\* the constructor returns False and __init__ calls sys.exit(0)
LockCheck(h) ==
  /\ hpc[h] = "check"
  /\ hpc' = [hpc EXCEPT ![h] = IF LockDecision = "refuse" THEN "done"
                                ELSE LockDecision]
  /\ lockG' = [lockG EXCEPT ![h] =
                 [found |-> LockFound,
                  alone |-> \A g \in Hosts \ {h} : ~Alive(g),
                  out |-> IF LockDecision = "refuse" THEN "refused"
                          ELSE "none",
                  after |-> \E g \in Hosts : lockG[g].out = "released"]]
  /\ UNCHANGED <<qvars, extVars, lockPath, inoContent, flockHolder, fd, cleanups>>

\* os.remove(lock_path) of a lock found stale or invalid
LockRemove(h) ==
  /\ hpc[h] = "remove"
  /\ lockPath' = 0
  /\ hpc' = [hpc EXCEPT ![h] = "open"]
  /\ UNCHANGED <<qvars, extVars, inoContent, flockHolder, fd, cleanups, lockG>>

\* self._lock_file = open(lock_path, 'w'): creates the file, or truncates
\* the one that is there
LockOpen(h) ==
  /\ hpc[h] = "open"
  /\ LET n == IF lockPath = 0 THEN FreeInode ELSE lockPath IN
     /\ lockPath' = n
     /\ inoContent' = [inoContent EXCEPT ![n] = 0]
     /\ flockHolder' = IF lockPath = 0 THEN [flockHolder EXCEPT ![n] = 0]
                       ELSE flockHolder
     /\ fd' = [fd EXCEPT ![h] = n]
  /\ hpc' = [hpc EXCEPT ![h] = "flock"]
  /\ UNCHANGED <<qvars, extVars, cleanups, lockG>>

\* fcntl.flock(LOCK_EX | LOCK_NB), then write and flush the PID; on OSError
\* the constructor returns False and the process exits
LockFlock(h) ==
  /\ hpc[h] = "flock"
  /\ IF flockHolder[fd[h]] = 0
     THEN /\ flockHolder' = [flockHolder EXCEPT ![fd[h]] = h]
          /\ inoContent' = [inoContent EXCEPT ![fd[h]] = h]
          /\ hpc' = [hpc EXCEPT ![h] = "running"]
          /\ lockG' = [lockG EXCEPT ![h].out = "acquired"]
          /\ UNCHANGED fd
     ELSE /\ hpc' = [hpc EXCEPT ![h] = "done"]
          /\ fd' = [fd EXCEPT ![h] = 0]
          /\ lockG' = [lockG EXCEPT ![h].out = "refused"]
          /\ UNCHANGED <<flockHolder, inoContent>>
  /\ UNCHANGED <<qvars, extVars, lockPath, cleanups>>

\* the poll loop ends: _cleanup runs in run()'s finally and again as the
\* exit hook (n = 2); on SIGTERM/SIGINT it runs first in the handler (n = 3)
HostShutdown(h, n) ==
  /\ hpc[h] = "running"
  /\ hpc' = [hpc EXCEPT ![h] = "cleanup"]
  /\ cleanups' = [cleanups EXCEPT ![h] = n]
  /\ UNCHANGED <<qvars, extVars, lockPath, inoContent, flockHolder, fd, lockG>>

\* (variant: the lock file is left in place)
LockPathReleasedKept(p) == p
\* "if os.path.exists(lock_path): os.remove(lock_path)": what is linked at
\* native_host.lock afterwards
LockPathReleased(p) == 0

\* one run of _cleanup -> _release_process_lock: close the lock file, then
\* remove native_host.lock if it exists
ReleaseLock(h) ==
  /\ hpc[h] = "cleanup"
  /\ flockHolder' = CloseFd(h)
  /\ fd' = [fd EXCEPT ![h] = 0]
  /\ lockPath' = LockPathReleased(lockPath)
  /\ cleanups' = [cleanups EXCEPT ![h] = @ - 1]
  /\ hpc' = [hpc EXCEPT ![h] = IF cleanups[h] = 1 THEN "done" ELSE "cleanup"]
  /\ lockG' = IF cleanups[h] = 1 THEN [lockG EXCEPT ![h].out = "released"]
              ELSE lockG
  /\ UNCHANGED <<qvars, extVars, inoContent>>

\* the process is killed: nothing is cleaned up, the kernel closes the file
HostCrash(h) ==
  /\ Alive(h) /\ hpc[h] # "cleanup"
  /\ hpc' = [hpc EXCEPT ![h] = "done"]
  /\ flockHolder' = CloseFd(h)
  /\ fd' = [fd EXCEPT ![h] = 0]
  /\ UNCHANGED <<qvars, extVars, lockPath, inoContent, cleanups, lockG>>

NextLock ==
  \/ \E h \in Hosts : HostLaunch(h)
  \/ \E h \in Hosts : LockCheck(h)
  \/ \E h \in Hosts : LockRemove(h)
  \/ \E h \in Hosts : LockOpen(h)
  \/ \E h \in Hosts : LockFlock(h)
  \/ \E h \in Hosts, n \in {2, 3} : HostShutdown(h, n)
  \/ \E h \in Hosts : ReleaseLock(h)
  \/ \E h \in Hosts : HostCrash(h)

SpecLock == Init /\ [][NextLock]_vars

(***************************************************************************)
(* The frame codec: NativeHost.read_message, send_message and the reader   *)
(* thread, over the bytes a peer writes on the host's stdin.  Byte strings *)
(* are kept run-length encoded: a sequence of runs [b |-> byte, n |->      *)
(* count] in which neighbouring runs hold different bytes.                 *)
(***************************************************************************)
\* "message_length > 1024 * 1024"
MaxMessage == 1048576
\* number of frames the peer writes
MaxFrames == 2

RECURSIVE RLen(_)
RLen(r) == IF r = <<>> THEN 0 ELSE Head(r).n + RLen(Tail(r))
\* the first k bytes of r (all of r when it is shorter), and the rest
RECURSIVE RTake(_, _)
RTake(r, k) ==
  IF k = 0 \/ r = <<>> THEN <<>>
  ELSE IF Head(r).n <= k THEN <<Head(r)>> \o RTake(Tail(r), k - Head(r).n)
  ELSE <<[b |-> Head(r).b, n |-> k]>>
RECURSIVE RDrop(_, _)
RDrop(r, k) ==
  IF k = 0 \/ r = <<>> THEN r
  ELSE IF Head(r).n <= k THEN RDrop(Tail(r), k - Head(r).n)
  ELSE <<[b |-> Head(r).b, n |-> Head(r).n - k]>> \o Tail(r)
\* data += chunk
RCat(x, y) ==
  IF x = <<>> THEN y
  ELSE IF y = <<>> THEN x
  ELSE IF x[Len(x)].b = y[1].b
  THEN SubSeq(x, 1, Len(x) - 1)
         \o <<[b |-> y[1].b, n |-> x[Len(x)].n + y[1].n]>> \o Tail(y)
  ELSE x \o y
\* the byte string of a sequence of byte values
RECURSIVE Bytes(_)
Bytes(q) ==
  IF q = <<>> THEN <<>> ELSE RCat(<<[b |-> Head(q), n |-> 1]>>, Bytes(Tail(q)))
\* k times the byte v
Rep(v, k) == IF k = 0 THEN <<>> ELSE <<[b |-> v, n |-> k]>>
RECURSIVE ByteAt(_, _)
ByteAt(r, i) == IF i <= Head(r).n THEN Head(r).b ELSE ByteAt(Tail(r), i - Head(r).n)

\* struct.pack("<I", n) and struct.unpack("<I", raw)[0]; every byte the
\* model puts on the stream is ASCII, so the value stays below 2^31
Pack(n) ==
  Bytes(<<n % 256, (n \div 256) % 256, (n \div 65536) % 256,
          (n \div 16777216) % 256>>)
\* (variant: the prefix is read most significant byte first)
UnpackBigEndian(raw) ==
  ByteAt(raw, 4) + 256 * ByteAt(raw, 3) + 65536 * ByteAt(raw, 2)
    + 16777216 * ByteAt(raw, 1)
Unpack(raw) ==
  ByteAt(raw, 1) + 256 * ByteAt(raw, 2) + 65536 * ByteAt(raw, 3)
    + 16777216 * ByteAt(raw, 4)

\* messages: the empty object, {"type": "hello"}, and {"p": "x...x"} with
\* n times the letter x
Msg(k, n) == [k |-> k, n |-> n]
EmptyMsg == Msg("empty", 0)
HelloMsg == Msg("hello", 0)
PadMsg(n) == Msg("pad", n)
NoMsg == Msg(None, 0)
NotJson == Msg("invalid", 0)
NotObject == Msg("nonobject", 0)
\* bytes of {"p": "" } around the padding
PadOverhead == 9
PadSizes == {1, MaxMessage - PadOverhead}
Messages == {EmptyMsg, HelloMsg} \cup {PadMsg(n) : n \in PadSizes}

\* json.dumps(msg, ensure_ascii=False).encode("utf-8")
JsonDumps(x) ==
  IF x.k = "empty" THEN Bytes(<<123, 125>>)
  ELSE IF x.k = "hello"
  THEN Bytes(<<123, 34, 116, 121, 112, 101, 34, 58, 32,
               34, 104, 101, 108, 108, 111, 34, 125>>)
  ELSE RCat(Bytes(<<123, 34, 112, 34, 58, 32, 34>>),
            RCat(Rep(120, x.n), Bytes(<<34, 125>>)))
\* JSON texts that are not objects: [] and 1
NonObjectTexts == {Bytes(<<91, 93>>), Bytes(<<49>>)}
\* json.loads(data.decode("utf-8")), with the isinstance(message, dict) test
JsonLoads(r) ==
  IF r = JsonDumps(EmptyMsg) THEN EmptyMsg
  ELSE IF r = JsonDumps(HelloMsg) THEN HelloMsg
  ELSE IF RLen(r) > PadOverhead /\ r = JsonDumps(PadMsg(RLen(r) - PadOverhead))
  THEN PadMsg(RLen(r) - PadOverhead)
  ELSE IF r \in NonObjectTexts THEN NotObject
  ELSE NotJson

\* send_message: os.write(length_data), os.write(encoded)
Encode(x) == RCat(Pack(RLen(JsonDumps(x))), JsonDumps(x))

\* frames a peer may write: encode(x); the bare prefix 0; a frame of
\* MaxMessage + 1 bytes whose body is not JSON text (it begins with the four
\* bytes of pack(MaxMessage)); a frame holding "{"; frames holding [] and 1
FrameOf(kind, x) == [kind |-> kind, msg |-> x]
GoodFrames == {FrameOf("good", x) : x \in Messages}
BadFrames == {FrameOf(k, NoMsg) : k \in {"zero", "over", "badjson", "nonobject"}}
OverBody == RCat(Pack(MaxMessage), Rep(120, MaxMessage + 1 - 4))
FrameBytes(f) ==
  IF f.kind = "good" THEN Encode(f.msg)
  ELSE IF f.kind = "zero" THEN Pack(0)
  ELSE IF f.kind = "over" THEN RCat(Pack(MaxMessage + 1), OverBody)
  ELSE IF f.kind = "badjson" THEN RCat(Pack(1), Bytes(<<123>>))
  ELSE RCat(Pack(2), Bytes(<<91, 93>>))
\* what the peer writes: up to MaxFrames frames; a frame of MaxMessage
\* bytes or more is written only on a stream that carried no oversize frame
\* before
IsLarge(f) == f.kind = "over" \/ (f.kind = "good" /\ f.msg.n > 1)
Scripts ==
  {q \in UNION {[1..k -> GoodFrames \cup BadFrames] : k \in 1..MaxFrames} :
     \A i, j \in 1..Len(q) : (i < j /\ q[i].kind = "over") => ~IsLarge(q[j])}

\* the peer decides what it will write
PeerScript(q) ==
  /\ rpc = "idle"
  /\ script' = q
  /\ tosend' = q
  /\ rpc' = "prefix"
  /\ UNCHANGED <<wbuf, pipe, eof, need, data, delivered, rpos, cev>>
  /\ UNCHANGED <<qvars, lockVars, chanVars, portVars, waitVars, raceVars>>

\* the frame the peer is writing
CurFrame == script[Len(script) - Len(tosend)]
\* size of the next write: all that is left of the frame (one buffered
\* write), or else the 4-byte prefix when the frame starts and the first
\* byte of the body right after the prefix (the body of the oversize frame
\* goes out in one write)
WriteSize(buf, starting, whole) ==
  IF whole THEN RLen(buf) ELSE IF starting THEN 4 ELSE 1
AtBody ==
  /\ wbuf # <<>> /\ CurFrame.kind # "over"
  /\ RLen(wbuf) = RLen(FrameBytes(CurFrame)) - 4

\* the peer writes more bytes of its current frame; they become readable
PeerWrite(whole) ==
  /\ ~eof
  /\ wbuf # <<>> \/ tosend # <<>>
  /\ LET starting == wbuf = <<>>
         buf == IF starting THEN FrameBytes(Head(tosend)) ELSE wbuf
         k == WriteSize(buf, starting, whole)
     IN
     /\ whole \/ (k < RLen(buf) /\ (starting \/ AtBody))
     /\ pipe' = RCat(pipe, RTake(buf, k))
     /\ wbuf' = RDrop(buf, k)
     /\ tosend' = IF starting THEN Tail(tosend) ELSE tosend
  /\ UNCHANGED <<script, eof, rpc, need, data, delivered, rpos, cev>>
  /\ UNCHANGED <<qvars, lockVars, chanVars, portVars, waitVars, raceVars>>

\* the pipe hands the reader fewer bytes than the peer wrote at once: of a
\* new frame only the first k bytes become readable for now, a part of the
\* 4-byte prefix
PeerWritePart(k) ==
  /\ ~eof
  /\ wbuf = <<>> /\ tosend # <<>>
  /\ LET buf == FrameBytes(Head(tosend)) IN
     /\ k < RLen(buf)
     /\ pipe' = RCat(pipe, RTake(buf, k))
     /\ wbuf' = RDrop(buf, k)
     /\ tosend' = Tail(tosend)
  /\ UNCHANGED <<script, eof, rpc, need, data, delivered, rpos, cev>>
  /\ UNCHANGED <<qvars, lockVars, chanVars, portVars, waitVars, raceVars>>

\* the peer closes its end after its last write
PeerClose ==
  /\ rpc # "idle" /\ ~eof /\ wbuf = <<>> /\ tosend = <<>>
  /\ eof' = TRUE
  /\ UNCHANGED <<script, tosend, wbuf, pipe, rpc, need, data, delivered,
                 rpos, cev>>
  /\ UNCHANGED <<qvars, lockVars, chanVars, portVars, waitVars, raceVars>>

\* (variant: no length is rejected)
LengthRejectedNever(n) == FALSE
\* "message_length == 0 or message_length > 1024 * 1024"
LengthRejected(n) == n = 0 \/ n > MaxMessage

\* read_message up to the body loop: os.read(fd, 4) returns what is there,
\* at most 4 bytes, and nothing at the end of the stream
ReadPrefix ==
  /\ rpc = "prefix"
  /\ pipe # <<>> \/ eof
  /\ LET raw == RTake(pipe, 4) IN
     /\ pipe' = RDrop(pipe, 4)
     /\ rpos' = rpos + RLen(raw)
     /\ IF RLen(raw) < 4
        THEN /\ cev' = "short_prefix"
             /\ UNCHANGED <<rpc, need>>
        ELSE IF LengthRejected(Unpack(raw))
        THEN /\ cev' = "bad_length"
             /\ UNCHANGED <<rpc, need>>
        ELSE /\ cev' = "prefix"
             /\ rpc' = "body"
             /\ need' = Unpack(raw)
  /\ UNCHANGED <<script, tosend, wbuf, eof, data, delivered>>
  /\ UNCHANGED <<qvars, lockVars, chanVars, portVars, waitVars, raceVars>>

\* one os.read of the body loop and, when the loop ends, the rest of
\* read_message and the append of stdin_reader
ReadBody ==
  /\ rpc = "body"
  /\ pipe # <<>> \/ eof
  /\ LET chunk == RTake(pipe, need)
         got == RCat(data, chunk)
         left == need - RLen(chunk)
     IN
     /\ pipe' = RDrop(pipe, need)
     /\ rpos' = rpos + RLen(chunk)
     /\ IF chunk # <<>> /\ left > 0
        THEN /\ data' = got
             /\ need' = left
             /\ cev' = "chunk"
             /\ UNCHANGED <<rpc, delivered>>
        ELSE /\ data' = <<>>
             /\ need' = 0
             /\ rpc' = "prefix"
             /\ IF left > 0
                THEN /\ cev' = "incomplete"
                     /\ UNCHANGED delivered
                ELSE IF JsonLoads(got) = NotJson
                THEN /\ cev' = "bad_json"
                     /\ UNCHANGED delivered
                ELSE IF JsonLoads(got) = NotObject
                THEN /\ cev' = "not_object"
                     /\ UNCHANGED delivered
                ELSE /\ cev' = "deliver"
                     /\ delivered' = Append(delivered, JsonLoads(got))
  /\ UNCHANGED <<script, tosend, wbuf, eof>>
  /\ UNCHANGED <<qvars, lockVars, chanVars, portVars, waitVars, raceVars>>

NextCodec ==
  \/ \E q \in Scripts : PeerScript(q)
  \/ \E whole \in BOOLEAN : PeerWrite(whole)
  \/ PeerClose
  \/ ReadPrefix
  \/ ReadBody

SpecCodec == Init /\ [][NextCodec]_vars

\* the sizes of the first part of a frame that cut its prefix
PartSizes == 1..3
\* streams of frames encode(x) only, with x of a few bytes
GoodScripts ==
  {q \in Scripts : \A i \in 1..Len(q) : q[i].kind = "good" /\ ~IsLarge(q[i])}

\* the reader on a pipe that may cut a frame anywhere
NextSplit ==
  \/ \E q \in GoodScripts : PeerScript(q)
  \/ \E whole \in BOOLEAN : PeerWrite(whole)
  \/ \E k \in PartSizes : PeerWritePart(k)
  \/ PeerClose
  \/ ReadPrefix
  \/ ReadBody

SpecSplit == Init /\ [][NextSplit]_vars

(***************************************************************************)
(* Socket channel: ThunderbirdExtensionClient._send_request_and_wait and   *)
(* _process_message, callers and the message handler on one event loop     *)
(***************************************************************************)
callVars == <<cpc, rid, elapsed, ret>>

\* connect() succeeds, or the server's handler accepts a connection
ChanConnect ==
  /\ ~is_connected
  /\ is_connected' = TRUE
  /\ chev' = "connect" /\ chout' = NoWsFrame
  /\ UNCHANGED <<request_id, pending_requests, callVars>>
  /\ chin' = NoWsFrame
  /\ UNCHANGED <<qvars, lockVars, codecVars, portVars, waitVars, raceVars>>

\* the message loop ends, or disconnect() is called
ChanDrop ==
  /\ is_connected
  /\ is_connected' = FALSE
  /\ chev' = "drop" /\ chout' = NoWsFrame
  /\ UNCHANGED <<request_id, pending_requests, callVars>>
  /\ chin' = NoWsFrame
  /\ UNCHANGED <<qvars, lockVars, codecVars, portVars, waitVars, raceVars>>

\* _send_request_and_wait up to its first suspension, inside websocket.send
RequestStart(c) ==
  /\ cpc[c] = "idle"
  /\ IF ~is_connected
     THEN /\ cpc' = [cpc EXCEPT ![c] = "done"]
          /\ ret' = [ret EXCEPT ![c] = Ret("not_connected", NoWsFrame, None)]
          /\ chev' = "refuse"
          /\ UNCHANGED <<request_id, pending_requests, rid>>
     ELSE /\ request_id < MaxRequests
          /\ request_id' = request_id + 1
          /\ rid' = [rid EXCEPT ![c] = request_id + 1]
          /\ pending_requests' =
               [pending_requests EXCEPT ![request_id + 1] = NewEntry]
          /\ cpc' = [cpc EXCEPT ![c] = "send"]
          /\ chev' = "request"
          /\ UNCHANGED ret
  /\ chout' = NoWsFrame
  /\ UNCHANGED <<is_connected, elapsed>>
  /\ chin' = NoWsFrame
  /\ UNCHANGED <<qvars, lockVars, codecVars, portVars, waitVars, raceVars>>

\* websocket.send returns (ok) or raises; on failure the entry is deleted
SendDone(c, ok) ==
  /\ cpc[c] = "send"
  /\ ok => is_connected
  /\ IF ok
     THEN /\ cpc' = [cpc EXCEPT ![c] = "wait"]
          /\ elapsed' = [elapsed EXCEPT ![c] = 0]
          /\ chev' = "sent"
          /\ chout' = WsFrame("request", rid[c], NoField)
          /\ UNCHANGED <<pending_requests, ret>>
     ELSE /\ pending_requests' = [pending_requests EXCEPT ![rid[c]] = NoEntry]
          /\ cpc' = [cpc EXCEPT ![c] = "done"]
          /\ ret' = [ret EXCEPT ![c] = Ret("send_failed", NoWsFrame, None)]
          /\ chev' = "send_failed"
          /\ chout' = NoWsFrame
          /\ UNCHANGED elapsed
  /\ UNCHANGED <<request_id, is_connected, rid>>
  /\ chin' = NoWsFrame
  /\ UNCHANGED <<qvars, lockVars, codecVars, portVars, waitVars, raceVars>>

\* data.get('error', 'Unknown error')
GetError(m) == IF m.error = NoField THEN "Unknown error" ELSE m.error
\* the truth value Python gives to the entry's error
Truthy(e) == e \notin {None, ""}

\* request_id and request_id in self.pending_requests
MatchesAnyId(m) == m.requestId # 0
Matches(m) == m.requestId # 0 /\ pending_requests[m.requestId] # NoEntry

\* _process_message on one inbound frame
ProcessMessage(m) ==
  /\ is_connected
  /\ IF Matches(m)
     THEN /\ pending_requests' =
               [pending_requests EXCEPT ![m.requestId] =
                  IF m.type = "error"
                  THEN [@ EXCEPT !.error = GetError(m), !.set = TRUE]
                  ELSE [@ EXCEPT !.result = m, !.set = TRUE]]
          /\ chev' = "resolve"
          /\ chout' = NoWsFrame
     ELSE /\ UNCHANGED pending_requests
          /\ IF m.type = "ping"
             THEN chev' = "pong" /\ chout' = WsFrame("pong", 0, NoField)
             ELSE IF m.type \in {"sendSuccess", "sendError"}
             THEN chev' = "notification" /\ chout' = NoWsFrame
             ELSE chev' = "unknown" /\ chout' = NoWsFrame
  /\ UNCHANGED <<request_id, is_connected, callVars>>
  /\ chin' = m
  /\ UNCHANGED <<qvars, lockVars, codecVars, portVars, waitVars, raceVars>>

\* event.wait() has returned: pop the entry, raise its error or return
Wake(c) ==
  /\ cpc[c] = "wait"
  /\ pending_requests[rid[c]].set
  /\ pending_requests' = [pending_requests EXCEPT ![rid[c]] = NoEntry]
  /\ ret' = [ret EXCEPT ![c] =
               IF Truthy(pending_requests[rid[c]].error)
               THEN Ret("peer_error", NoWsFrame, pending_requests[rid[c]].error)
               ELSE Ret("returned", pending_requests[rid[c]].result, None)]
  /\ cpc' = [cpc EXCEPT ![c] = "done"]
  /\ chev' = "wake" /\ chout' = NoWsFrame
  /\ UNCHANGED <<request_id, is_connected, rid, elapsed>>
  /\ chin' = NoWsFrame
  /\ UNCHANGED <<qvars, lockVars, codecVars, portVars, waitVars, raceVars>>

\* asyncio.wait_for raises TimeoutError
Timeout(c) ==
  /\ cpc[c] = "wait"
  /\ elapsed[c] = MaxTicks
  /\ pending_requests' = [pending_requests EXCEPT ![rid[c]] = NoEntry]
  /\ ret' = [ret EXCEPT ![c] = Ret("timeout", NoWsFrame, None)]
  /\ cpc' = [cpc EXCEPT ![c] = "done"]
  /\ chev' = "timeout" /\ chout' = NoWsFrame
  /\ UNCHANGED <<request_id, is_connected, rid, elapsed>>
  /\ chin' = NoWsFrame
  /\ UNCHANGED <<qvars, lockVars, codecVars, portVars, waitVars, raceVars>>

\* time passes for the callers inside wait_for, never beyond a timeout
Tick ==
  /\ \E c \in Callers : cpc[c] = "wait"
  /\ \A c \in Callers : cpc[c] = "wait" => elapsed[c] < MaxTicks
  /\ elapsed' = [c \in Callers |->
                   IF cpc[c] = "wait" THEN elapsed[c] + 1 ELSE elapsed[c]]
  /\ chev' = "tick" /\ chout' = NoWsFrame
  /\ UNCHANGED <<request_id, pending_requests, is_connected, cpc, rid, ret>>
  /\ chin' = NoWsFrame
  /\ UNCHANGED <<qvars, lockVars, codecVars, portVars, waitVars, raceVars>>

\* the caller has taken the outcome and may call again
CallerReturn(c) ==
  /\ cpc[c] = "done"
  /\ cpc' = [cpc EXCEPT ![c] = "idle"]
  /\ rid' = [rid EXCEPT ![c] = 0]
  /\ elapsed' = [elapsed EXCEPT ![c] = 0]
  /\ ret' = [ret EXCEPT ![c] = NoRet]
  /\ chev' = "return" /\ chout' = NoWsFrame
  /\ UNCHANGED <<request_id, pending_requests, is_connected>>
  /\ chin' = NoWsFrame
  /\ UNCHANGED <<qvars, lockVars, codecVars, portVars, waitVars, raceVars>>

NextChan ==
  \/ ChanConnect
  \/ ChanDrop
  \/ \E c \in Callers : RequestStart(c)
  \/ \E c \in Callers : \E ok \in BOOLEAN : SendDone(c, ok)
  \/ \E m \in InFrames : ProcessMessage(m)
  \/ \E c \in Callers : Wake(c)
  \/ \E c \in Callers : Timeout(c)
  \/ Tick
  \/ \E c \in Callers : CallerReturn(c)

\* the event loop runs every ready coroutine and timer, and time passes
FairChan ==
  /\ WF_vars(Tick)
  /\ \A c \in Callers :
       /\ WF_vars(\E ok \in BOOLEAN : SendDone(c, ok))
       /\ WF_vars(Wake(c))
       /\ WF_vars(Timeout(c))

SpecChan == Init /\ [][NextChan]_vars /\ FairChan

(***************************************************************************)
(* The channel as a server: start_websocket_server runs the handler, and   *)
(* with it _process_message, on the event loop of server_thread, while the *)
(* callers of _send_request_and_wait run on the event loop of their own    *)
(* thread; the two threads interleave between any two statements           *)
(***************************************************************************)
\* "if request_id and request_id in self.pending_requests": the handler has
\* found the entry, or handles the frame as one that answers no request
Lookup(m) ==
  /\ is_connected /\ lst = NoListen
  /\ IF Matches(m)
     THEN /\ lst' = [frame |-> m, stage |-> "found"]
          /\ chev' = "found" /\ chout' = NoWsFrame
     ELSE /\ UNCHANGED lst
          /\ IF m.type = "ping"
             THEN chev' = "pong" /\ chout' = WsFrame("pong", 0, NoField)
             ELSE IF m.type \in {"sendSuccess", "sendError"}
             THEN chev' = "notification" /\ chout' = NoWsFrame
             ELSE chev' = "unknown" /\ chout' = NoWsFrame
  /\ chin' = m
  /\ UNCHANGED <<request_id, pending_requests, is_connected, callVars, torn>>
  /\ UNCHANGED <<qvars, lockVars, codecVars, portVars, waitVars>>

\* self.pending_requests[request_id]['error' or 'result'] = ...: a KeyError
\* when the caller has removed the entry since the lookup; the handler of
\* the server logs it and goes on with the next frame
WriteEntry ==
  /\ lst.stage = "found"
  /\ LET m == lst.frame IN
     IF pending_requests[m.requestId] = NoEntry
     THEN /\ lst' = NoListen
          /\ chev' = "keyerror"
          /\ UNCHANGED pending_requests
     ELSE /\ pending_requests' =
               [pending_requests EXCEPT ![m.requestId] =
                  IF m.type = "error"
                  THEN [@ EXCEPT !.error = GetError(m)]
                  ELSE [@ EXCEPT !.result = m]]
          /\ lst' = [lst EXCEPT !.stage = "written"]
          /\ chev' = "written"
  /\ chout' = NoWsFrame /\ chin' = NoWsFrame
  /\ UNCHANGED <<request_id, is_connected, callVars, torn>>
  /\ UNCHANGED <<qvars, lockVars, codecVars, portVars, waitVars>>

\* self.pending_requests[request_id]['event'].set(), a KeyError likewise
SetEvent ==
  /\ lst.stage = "written"
  /\ LET m == lst.frame IN
     IF pending_requests[m.requestId] = NoEntry
     THEN /\ chev' = "keyerror"
          /\ UNCHANGED pending_requests
     ELSE /\ pending_requests' =
               [pending_requests EXCEPT ![m.requestId].set = TRUE]
          /\ chev' = "resolve"
  /\ lst' = NoListen
  /\ chout' = NoWsFrame /\ chin' = NoWsFrame
  /\ UNCHANGED <<request_id, is_connected, callVars, torn>>
  /\ UNCHANGED <<qvars, lockVars, codecVars, portVars, waitVars>>

NextThread ==
  \/ ChanConnect
  \/ ChanDrop
  \/ \E c \in Callers : RequestStart(c)
  \/ \E c \in Callers : \E ok \in BOOLEAN : SendDone(c, ok)
  \/ \E m \in InFrames : Lookup(m)
  \/ WriteEntry
  \/ SetEvent
  \/ \E c \in Callers : Wake(c)
  \/ \E c \in Callers : Timeout(c)
  \/ Tick
  \/ \E c \in Callers : CallerReturn(c)

SpecThread == Init /\ [][NextThread]_vars

(***************************************************************************)
(* Socket channel, listening: start_websocket_server                       *)
(***************************************************************************)
\* the ports on which a bind fails
InUse == taken \cup {port[i] : i \in {j \in Instances : lpc[j] = "serving"}}
Min(S) == CHOOSE p \in S : \A q \in S : p <= q
Max(S) == CHOOSE p \in S : \A q \in S : p >= q
IsPortAvailable(p) == p \notin InUse
\* the range find_available_port walks
Attempts(start_port, max_attempts) ==
  {p \in Ports : start_port <= p /\ p < start_port + max_attempts}
FreePorts(start_port, max_attempts) ==
  {p \in Attempts(start_port, max_attempts) : IsPortAvailable(p)}
FindAvailablePortLast(start_port, max_attempts) ==
  IF FreePorts(start_port, max_attempts) = {} THEN NoPort
  ELSE Max(FreePorts(start_port, max_attempts))
FindAvailablePort(start_port, max_attempts) ==
  IF FreePorts(start_port, max_attempts) = {} THEN NoPort
  ELSE Min(FreePorts(start_port, max_attempts))
\* the port listen has to choose when the ports in S cannot be bound: the
\* preferred one if it is free, else the lowest free one that follows it
Expected(S) ==
  IF PreferredPort \notin S THEN PreferredPort
  ELSE IF Ports \ S = {} THEN NoPort
  ELSE Min(Ports \ S)
\* a bind or a release changes what the probes of the waiting instances saw
Disturbed(i) ==
  [j \in Instances |->
     IF j # i /\ lpc[j] = "started" THEN [lG[j] EXCEPT !.quiet = FALSE]
     ELSE lG[j]]

\* another program binds a port
EnvTake(p) ==
  /\ p \notin InUse
  /\ taken' = taken \cup {p}
  /\ lG' = [j \in Instances |->
              IF lpc[j] = "started" THEN [lG[j] EXCEPT !.quiet = FALSE]
              ELSE lG[j]]
  /\ UNCHANGED <<lpc, port>>
  /\ UNCHANGED <<qvars, lockVars, codecVars, chanVars, waitVars, raceVars>>

\* another program closes its socket
EnvRelease(p) ==
  /\ p \in taken
  /\ taken' = taken \ {p}
  /\ lG' = [j \in Instances |->
              IF lpc[j] = "started" THEN [lG[j] EXCEPT !.quiet = FALSE]
              ELSE lG[j]]
  /\ UNCHANGED <<lpc, port>>
  /\ UNCHANGED <<qvars, lockVars, codecVars, chanVars, waitVars, raceVars>>

\* start_websocket_server: probe, choose self.port, start the server thread;
\* or raise when no port of the range is available
Listen(i) ==
  /\ lpc[i] = "idle"
  /\ IF IsPortAvailable(port[i])
     THEN /\ lpc' = [lpc EXCEPT ![i] = "started"]
          /\ UNCHANGED port
     ELSE IF FindAvailablePort(port[i], MaxAttempts) # NoPort
     THEN /\ lpc' = [lpc EXCEPT ![i] = "started"]
          /\ port' = [port EXCEPT ![i] = FindAvailablePort(port[i], MaxAttempts)]
     ELSE /\ lpc' = [lpc EXCEPT ![i] = "raised"]
          /\ UNCHANGED port
  /\ lG' = [lG EXCEPT ![i] = [want |-> Expected(InUse), quiet |-> TRUE]]
  /\ UNCHANGED taken
  /\ UNCHANGED <<qvars, lockVars, codecVars, chanVars, waitVars, raceVars>>

\* run_server: websockets.serve binds self.port; a failure is logged in the
\* thread, after start_websocket_server has returned
Bind(i) ==
  /\ lpc[i] = "started"
  /\ IF IsPortAvailable(port[i])
     THEN /\ lpc' = [lpc EXCEPT ![i] = "serving"]
          /\ lG' = Disturbed(i)
     ELSE /\ lpc' = [lpc EXCEPT ![i] = "unbound"]
          /\ UNCHANGED lG
  /\ UNCHANGED <<taken, port>>
  /\ UNCHANGED <<qvars, lockVars, codecVars, chanVars, waitVars, raceVars>>

NextPort ==
  \/ \E p \in Ports : EnvTake(p)
  \/ \E p \in Ports : EnvRelease(p)
  \/ \E i \in Instances : Listen(i)
  \/ \E i \in Instances : Bind(i)

SpecPort == Init /\ [][NextPort]_vars

(***************************************************************************)
(* The wait for a result: the host writes results/{id}.json                *)
(* (handle_incoming), the producer polls for it (awaitResult)              *)
(***************************************************************************)
\* the number of poll intervals in the producer's timeout
MaxPolls == 2

\* 'with open(result_path, "w", encoding="utf-8") as f': the file exists
\* and is empty
HostWriteOpen(i) ==
  /\ hwr[i] = "idle"
  /\ rfile' = [rfile EXCEPT ![i] = PartialFile]
  /\ hwr' = [hwr EXCEPT ![i] = "open"]
  /\ wev' = [id |-> i, kind |-> "open"]
  /\ UNCHANGED <<wpc, polls, wres, wseen>>
  /\ UNCHANGED <<qvars, lockVars, codecVars, chanVars, portVars, raceVars>>

\* json.dump and the close of the file: the result is in the file, or the
\* write raises and the except branch logs it
HostWriteDump(i, s, ok) ==
  /\ hwr[i] = "open"
  /\ rfile' = [rfile EXCEPT ![i] = IF ok THEN FullFile(s) ELSE @]
  /\ hwr' = [hwr EXCEPT ![i] = "done"]
  /\ wev' = [id |-> i, kind |-> IF ok THEN "dump" ELSE "dump_failed"]
  /\ UNCHANGED <<wpc, polls, wres, wseen>>
  /\ UNCHANGED <<qvars, lockVars, codecVars, chanVars, portVars, raceVars>>

\* awaitResult(id, timeout, pollInterval) begins
AwaitStart(i) ==
  /\ wpc[i] = "idle"
  /\ wpc' = [wpc EXCEPT ![i] = "waiting"]
  /\ wev' = [id |-> i, kind |-> "await"]
  /\ UNCHANGED <<rfile, hwr, polls, wres, wseen>>
  /\ UNCHANGED <<qvars, lockVars, codecVars, chanVars, portVars, raceVars>>

\* (variant: a file that does not parse is reported)
ReadResultStrict(file) ==
  IF file.state = "absent" THEN "Retry"
  ELSE IF file.state = "partial" THEN "ParseFailure"
  ELSE IF file.success THEN "Success" ELSE "Failure"
\* one read of results/{id}.json: the outcome in a complete file, and
\* "Retry" for a file that is absent or only partially written
ReadResult(file) ==
  IF file.state # "full" THEN "Retry"
  ELSE IF file.success THEN "Success" ELSE "Failure"

\* (variant: the wait has no deadline)
TimeIsUpNever(n) == FALSE
\* the timeout has elapsed after n poll intervals
TimeIsUp(n) == n >= MaxPolls

\* one round of the poll loop of awaitResult: read the file; return its
\* result; otherwise return TimedOut when the timeout has elapsed, or sleep
\* one poll interval
Poll(i) ==
  /\ wpc[i] = "waiting"
  /\ LET r == ReadResult(rfile[i]) IN
     /\ wseen' = [wseen EXCEPT ![i] = @ \/ rfile[i].state = "partial"]
     /\ IF r # "Retry"
        THEN /\ wres' = [wres EXCEPT ![i] = r]
             /\ wpc' = [wpc EXCEPT ![i] = "done"]
             /\ wev' = [id |-> i, kind |-> "return"]
             /\ UNCHANGED polls
        ELSE IF TimeIsUp(polls[i])
        THEN /\ wres' = [wres EXCEPT ![i] = "TimedOut"]
             /\ wpc' = [wpc EXCEPT ![i] = "done"]
             /\ wev' = [id |-> i, kind |-> "timeout"]
             /\ UNCHANGED polls
        ELSE /\ polls[i] < MaxPolls
             /\ polls' = [polls EXCEPT ![i] = @ + 1]
             /\ wev' = [id |-> i, kind |-> "retry"]
             /\ UNCHANGED <<wres, wpc>>
  /\ UNCHANGED <<rfile, hwr>>
  /\ UNCHANGED <<qvars, lockVars, codecVars, chanVars, portVars, raceVars>>

NextWait ==
  \/ \E i \in Ids : HostWriteOpen(i)
  \/ \E i \in Ids, s \in BOOLEAN, ok \in BOOLEAN : HostWriteDump(i, s, ok)
  \/ \E i \in Ids : AwaitStart(i)
  \/ \E i \in Ids : Poll(i)

\* the producer's loop keeps running, and the host's write, once begun,
\* ends
FairWait ==
  /\ \A i \in Ids : WF_vars(Poll(i))
  /\ \A i \in Ids : WF_vars(\E s \in BOOLEAN, ok \in BOOLEAN :
                              HostWriteDump(i, s, ok))

SpecWait == Init /\ [][NextWait]_vars /\ FairWait

TypeOK ==
  /\ pc \in {"drain", "loop", "claim", "send", "off"}
  /\ connected \in BOOLEAN
  /\ Len(incoming) <= MaxIncoming
(***************************************************************************)
(* Properties                                                              *)
(***************************************************************************)
DispatchEvents == {"result", "hello", "getFileData", "unhandled"}
OkResult(i) == [id |-> i, success |-> TRUE, error |-> None]

\* C1: when a host that has dispatched a hello frame and forwarded the job
\* file {id}.json dispatches the peer reply {id, success:true}, then
\* results/{id}.json holds exactly {id, success:true} (no error field) and
\* neither jobs/{id}.json nor processing/{id}.json exists.
C1_EndToEnd ==
  [][\A i \in Ids :
       (ev' = "result" /\ Head(incoming) = ReplyOk(i) /\ seen = "hello"
          /\ i \in fwd)
       => (results'[i] = OkResult(i) /\ jobs'[i] = NoJob
             /\ processing'[i] = NoJob)]_vars
C1_Witness ==
  /\ ev = "result" /\ seen = "hello" /\ "a" \in fwd
  /\ results["a"] = OkResult("a")
  /\ jobs["a"] = NoJob /\ processing["a"] = NoJob /\ inflight["a"] = NoPath

ListedIds == {used[f] : f \in scanG.listed}
OnePerListedId ==
  \A i \in Ids : scanG.sent[i] = IF i \in ListedIds THEN 1 ELSE 0
\* the first scan after the dispatch of a hello frame, having listed
\* eligible files, ends with every rename and every send having succeeded
CleanScanEnds == ev' = "scan_end" /\ scanG.on

\* C3 (as stated): such a scan has sent exactly one job frame per listed
\* id, and InFlightTable holds exactly the listed ids.
C3_ExactlyListed ==
  [][(CleanScanEnds /\ scanG.listed # {})
       => (OnePerListedId /\ InFlightIds = ListedIds)]_vars
\* C3 (amended): such a scan has sent exactly one job frame per listed id,
\* and InFlightTable holds the listed ids together with the ids that were
\* in flight when the scan began.
C3_ListedAdded ==
  [][CleanScanEnds
       => (OnePerListedId /\ InFlightIds = scanG.inflight0 \cup ListedIds)]_vars
C3_Witness ==
  /\ pc = "loop" /\ files = {} /\ scanG.on
  /\ Cardinality(scanG.listed) = 2 /\ scanG.sent = [i \in Ids |-> 1]
  /\ InFlightIds = ListedIds

\* C10: every job enqueued in jobs/ eventually gets a result file, across
\* host stops and restarts.
C10_EveryJobAnswered ==
  \A i \in Ids : (jobs[i] # NoJob) ~> (results[i] # NoResult)

\* C4: at most one host process at a time has passed lock acquisition and
\* is running its poll loop.
C4_SingleHost == Cardinality(RunningHosts) <= 1

\* C5: once results/{id}.json has been written, no later write changes its
\* content.
C5_ResultImmutable ==
  [][\A i \in Ids :
       (results[i] # NoResult /\ results'[i] # NoResult)
       => results'[i] = results[i]]_vars

\* C6: when the send of a job's frame fails, results/{id}.json holds
\* success=false with an error naming the transport failure, the job's file
\* is gone from processing/ (or from jobs/ when processed in place), the id
\* is not in InFlightTable, and the host is Disconnected.
C6_SendFailure ==
  [][(pc = "send" /\ ev' = "send_failed")
       => /\ results'[cur.id] =
               [id |-> cur.id, success |-> FALSE,
                error |-> "Send failed: " \o SendError]
          /\ processing'[cur.id] = NoJob
          /\ cur.path = JobPath(cur.f) => jobs'[cur.f] = NoJob
          /\ inflight'[cur.id] = NoPath
          /\ ~connected']_vars
C6_Witness ==
  /\ ev = "send_failed" /\ ~connected
  /\ results["a"] = SendFailedResult("a")
  /\ processing["a"] = NoJob /\ jobs["a"] = NoJob /\ inflight["a"] = NoPath

\* C7: no job is claimed and no job frame is sent (or attempted) while the
\* host is Disconnected.
C7_NoWorkWhileDisconnected ==
  [][ev' \in {"claim", "sent", "send_failed"} => connected]_vars

\* C8: while an id is in InFlightTable, no second frame for that id is sent.
C8_NoSecondFrame ==
  [][(pc = "send" /\ ev' = "sent") => inflight[cur.id] = NoPath]_vars
C8_Witness ==
  /\ ev = "inflight_skip" /\ inflight["a"] # NoPath
  /\ \E f \in FNames : jobs[f] # NoJob /\ jobs[f].id = "a"

\* C9: while Connected, a job file in jobs/ whose id already has a result is
\* deleted by the scan without being moved to processing/, without a frame
\* being sent and without the result file being modified.
C9_DuplicateDeleted ==
  [][\A f \in FNames :
       (/\ pc = "loop" /\ connected /\ f \in files /\ f \notin files'
        /\ ev' # None
        /\ jobs[f] # NoJob /\ jobs[f].id \in Ids
        /\ results[jobs[f].id] # NoResult)
       => (/\ jobs'[f] = NoJob /\ processing' = processing
           /\ results' = results /\ fwd' = fwd /\ pc' = "loop")]_vars
C9_Witness ==
  /\ ev = "dedupe" /\ connected
  /\ used["d1"] = "a" /\ jobs["d1"] = NoJob /\ results["a"] # NoResult
  /\ processing["a"] = NoJob

\* a host whose startup found a lock file naming no live process, or one
\* whose content is not a PID
FoundStale(h) == lockG[h].found \in {"stale", "invalid"}

LiveOwner ==
  /\ lockPath # 0 /\ inoContent[lockPath] \in Hosts
  /\ hpc[inoContent[lockPath]] \notin {"off", "done"}

\* C12: a host that finds native_host.lock naming the PID of a live host
\* exits from its constructor: it never runs the poll loop, no job is
\* claimed or forwarded by it, and the lock file, its content and its
\* advisory lock are left as they were.
C12_LiveOwnerRefuses ==
  /\ [](\A h \in Hosts : lockG[h].found = "live" => hpc[h] = "done")
  /\ [][\A h \in Hosts :
          (hpc[h] = "check" /\ LiveOwner /\ hpc'[h] # "check")
          => (/\ hpc'[h] = "done"
              /\ lockPath' = lockPath /\ inoContent' = inoContent
              /\ flockHolder' = flockHolder
              /\ store' = store /\ fwd' = fwd)]_vars
C12_Witness ==
  /\ lockG[2].found = "live" /\ lockG[2].out = "refused" /\ hpc[2] = "done"
  /\ hpc[1] = "running" /\ lockPath # 0 /\ inoContent[lockPath] = 1
  /\ flockHolder[lockPath] = 1

\* C13: when a host that held the lock completes its shutdown, after the
\* loop ended normally (two runs of _cleanup) or on SIGTERM/SIGINT (three),
\* native_host.lock does not exist; and a host that starts after such a
\* shutdown, while no other host process is alive, acquires the lock.
C13_ShutdownFreesLock ==
  /\ [][\A h \in Hosts :
          (hpc[h] = "cleanup" /\ lockG[h].out = "acquired"
             /\ cleanups'[h] # cleanups[h])
          => lockPath' = 0]_vars
  /\ [](\A g \in Hosts :
          (lockG[g].after /\ lockG[g].alone)
          => /\ lockG[g].out # "refused"
             /\ hpc[g] = "running"
                => (lockPath # 0 /\ inoContent[lockPath] = g))
C13_Witness ==
  /\ lockG[1].out = "released" /\ hpc[1] = "done"
  /\ lockG[2].after /\ lockG[2].alone /\ lockG[2].found = "absent"
  /\ hpc[2] = "running" /\ inoContent[lockPath] = 2

\* the next four bytes of the stream, read as a length
NextLength == Unpack(RTake(pipe, 4))
\* the peer has written everything and the reader has read all of it
StreamRead == rpc # "idle" /\ tosend = <<>> /\ wbuf = <<>> /\ pipe = <<>>

\* C14: when the four prefix bytes read by read_message give a length of 0
\* or of more than 1 MiB, the call consumes those four bytes only, enters
\* no body read and no message is delivered.
C14_BadLengthRejected ==
  [][(/\ rpc = "prefix" /\ rpos' # rpos /\ RLen(RTake(pipe, 4)) = 4
      /\ (NextLength = 0 \/ NextLength > 1048576))
     => (/\ rpos' = rpos + 4 /\ pipe' = RDrop(pipe, 4)
         /\ rpc' = "prefix" /\ delivered' = delivered)]_vars
C14_Witness ==
  /\ cev = "bad_length" /\ script[1].kind = "over" /\ rpos = 4
  /\ RLen(pipe) = MaxMessage + 1 /\ rpc = "prefix" /\ delivered = <<>>

\* the peer writes encode(x) of messages of at most 1 MiB only
AllGood == \A i \in 1..Len(script) : script[i].kind = "good"
\* the number of bytes of the first k frames
RECURSIVE Sent(_)
Sent(k) == IF k = 0 THEN 0 ELSE Sent(k - 1) + RLen(FrameBytes(script[k]))

\* C15: on a stream of frames encode(x), each a 4-byte little-endian length
\* followed by that many JSON bytes, with x of at most 1 MiB: the messages
\* delivered are the x, in order; between two messages the reader has
\* consumed exactly the bytes of the frames delivered so far; and once all
\* bytes are read every x has been delivered.
C15_RoundTrip ==
  AllGood =>
    /\ Len(delivered) <= Len(script)
    /\ \A i \in 1..Len(delivered) : delivered[i] = script[i].msg
    /\ rpc = "prefix" => rpos = Sent(Len(delivered))
    /\ StreamRead => (rpc = "prefix" /\ Len(delivered) = Len(script))
C15_Witness ==
  /\ AllGood /\ StreamRead /\ rpc = "prefix"
  /\ delivered = <<PadMsg(MaxMessage - PadOverhead), HelloMsg>>
  /\ rpos = MaxMessage + 4 + 17 + 4

\* C26: read_message assembles the 4-byte prefix and the body over any
\* split of the bytes into partial reads: no read of a prefix ends short
\* while the stream is open, the bytes consumed between two messages are
\* exactly those of the frames delivered, each message delivered is the one
\* written, and once all bytes are read every frame has been delivered.
C26_AnySplitDelivered ==
  AllGood =>
    /\ (cev = "short_prefix" /\ ~eof) => rpos = Sent(Len(delivered))
    /\ cev \notin {"bad_length", "bad_json", "not_object"}
    /\ \A i \in 1..Len(delivered) :
         i <= Len(script) /\ delivered[i] = script[i].msg
    /\ (StreamRead /\ rpc = "prefix") => Len(delivered) = Len(script)

\* C31: dispatching an inbound frame that is no result (no id together
\* with success or error), no hello and no getFileData sends no reply and
\* leaves InFlightTable, jobs/, processing/ and results/ as they were.
C31_UnrecognizedIgnored ==
  [][(/\ pc = "drain" /\ incoming # <<>> /\ incoming' = Tail(incoming)
      /\ Head(incoming).type \notin {"hello", "getFileData"}
      /\ (Head(incoming).id = None
          \/ (Head(incoming).success = None /\ Head(incoming).error = None)))
     => /\ out' = NoOut /\ sok' = None
        /\ inflight' = inflight
        /\ jobs' = jobs /\ processing' = processing /\ results' = results]_vars
C31_Witness ==
  /\ ev = "unhandled" /\ seen = "hello" /\ out = NoOut
  /\ inflight["a"] = ProcessingPath("a") /\ processing["a"] # NoJob
  /\ results["a"] = NoResult /\ incoming = <<>>

C33_PartialJobLater ==
  /\ [][/\ \A f \in Ids :
             (/\ pc = "loop" /\ f \in files /\ f \notin files'
              /\ jobs[f] = Job(f, NotJsonFile))
             => /\ pc' = "loop" /\ out' = NoOut /\ jobs' = jobs
                /\ inflight' = inflight /\ fwd' = fwd /\ f \in torn'
        /\ (pc = "send" /\ pc' # "send")
           => /\ out' = JobFrame(Job(cur.f, cur.f))
              /\ cur.f \notin fwd]_vars
  /\ \A f \in Ids : (f \in torn) ~> (f \in fwd)
C33_Witness ==
  /\ ev = "sent" /\ "a" \in torn /\ "a" \in fwd
  /\ out = JobFrame(Job("a", "a")) /\ inflight["a"] # NoPath

\* C34: the handler's lookup and resolution of a pending entry and the
\* callers' allocation, insert and removal exclude each other: no two calls
\* in progress hold the same request id, and the handler never comes to
\* resolve an entry that has been removed since it looked it up.
C34_TableSerialized ==
  /\ \A c, e \in Callers :
       (c # e /\ cpc[c] \in {"send", "wait"} /\ cpc[e] \in {"send", "wait"})
       => rid[c] # rid[e]
  /\ lst.stage # "idle" => pending_requests[lst.frame.requestId] # NoEntry
  /\ chev # "keyerror"

\* C35: channel instances that start listening with the same preferred
\* port serve on distinct ports, and none of them has returned from listen
\* with a port that it failed to bind and that another instance serves on.
C35_ReportedPortBound ==
  \A i, j \in Instances :
    i # j =>
      /\ (lpc[i] = "serving" /\ lpc[j] = "serving") => port[i] # port[j]
      /\ ~(lpc[i] = "unbound" /\ lpc[j] = "serving" /\ port[i] = port[j])

\* C36: on the socket channel a frame that matches no pending request is
\* dispatched by the rules of the host: hello is answered with hello_ack,
\* getFileData with a file-data reply, and any other frame with nothing.
C36_SameDispatch ==
  [][(/\ chin' # NoWsFrame
      /\ (chin'.requestId = 0 \/ pending_requests[chin'.requestId] = NoEntry))
     => /\ chin'.type = "hello" => chout'.type = "hello_ack"
        /\ chin'.type = "getFileData" => chout'.type = "fileDataResponse"
        /\ chin'.type \notin {"hello", "getFileData"} => chout' = NoWsFrame]_vars
\* the same without the handshake and without the channel's own ping
C36_OthersIgnored ==
  [][(/\ chin' # NoWsFrame
      /\ (chin'.requestId = 0 \/ pending_requests[chin'.requestId] = NoEntry)
      /\ chin'.type \notin {"hello", "getFileData", "ping"})
     => chout' = NoWsFrame]_vars

\* C37: no job is lost: every id for which the producer has written a job
\* has a file in jobs/, in processing/ or in results/ (no result is
\* consumed and no job withdrawn here), so the processing or in-place file
\* goes only once the result file is there, also when a result file cannot
\* be written.
C37_ClaimedNotLost ==
  \A f \in FNames :
    used[f] \in Ids
    => \/ \E g \in FNames : jobs[g].id = used[f]
       \/ processing[used[f]] # NoJob
       \/ results[used[f]] # NoResult

\* the recorded path of an id in flight is processing/{id}.json or the file
\* of jobs/ the job was read from; a frame for the id has reached the peer;
\* the id has no result file
InflightSound(i) ==
  /\ \/ inflight[i] = ProcessingPath(i)
     \/ inflight[i].dir = "jobs" /\ used[inflight[i].name] = i
  /\ i \in peerGot
  /\ results[i] = NoResult
\* C38 (as stated): for each id in InFlightTable the recorded path is
\* processing/{id}.json or that job's file in jobs/, the file at that path
\* exists, a frame for the id has been sent and results/{id}.json does not
\* exist.
C38_InflightFileExists ==
  \A i \in Ids :
    inflight[i] # NoPath
    => /\ InflightSound(i)
       /\ inflight[i].dir = "processing" => processing[i] # NoJob
       /\ inflight[i].dir = "jobs" => jobs[inflight[i].name] # NoJob
\* C38 (amended): the same, the file being required to exist only for a
\* path in processing/, where no producer removes files.
C38_InflightSound ==
  \A i \in Ids :
    inflight[i] # NoPath
    => /\ InflightSound(i)
       /\ inflight[i].dir = "processing" => processing[i] = Job(i, i)
C38_Witness ==
  /\ inflight["a"] = JobPath("a") /\ jobs["a"] = NoJob /\ "a" \in peerGot
  /\ inflight["b"] = ProcessingPath("b") /\ processing["b"] = Job("b", "b")

\* C39: results/ changes only for an id whose job frame the host has just
\* failed to send or whose frame is in flight: dispatching a frame
\* {id, success|error} whose id is not in InFlightTable leaves results/ as
\* it was.
C39_ResultOnlyForSent ==
  [][/\ (/\ pc = "drain" /\ incoming # <<>> /\ incoming' = Tail(incoming)
         /\ Head(incoming).id \in Ids
         /\ inflight[Head(incoming).id] = NoPath)
        => results' = results
     /\ \A i \in Ids :
          results'[i] # results[i]
          => \/ pc = "send" /\ cur.id = i /\ sok' = "False"
             \/ pc = "drain" /\ inflight[i] # NoPath]_vars

\* C40: a run of _cleanup by a host removes native_host.lock only while the
\* file linked there is that host's own (the one it opened, naming its PID):
\* it never unlinks a lock file created by another host, and so a running
\* host that acquired the lock after an earlier cleanup keeps its lock file.
C40_CleanupOwnLockOnly ==
  [][\A h \in Hosts :
       (/\ hpc[h] = "cleanup" /\ cleanups'[h] # cleanups[h]
        /\ lockPath # 0 /\ lockPath' = 0)
       => (fd[h] = lockPath /\ inoContent[lockPath] = h)]_vars

\* what awaitResult can return
WaitOutcomes == {"Success", "Failure", "TimedOut"}

\* C23: the producer's wait is bounded by its timeout: a wait that has
\* begun ends; it ends in Success, Failure or TimedOut; TimedOut is
\* returned after MaxPolls poll intervals, not earlier and not later; and a
\* wait that ends while no result file has appeared ends in TimedOut.
C23_WaitBounded ==
  /\ [](\A i \in Ids :
          /\ polls[i] <= MaxPolls
          /\ wres[i] = "TimedOut" => polls[i] = MaxPolls
          /\ wpc[i] = "done" => wres[i] \in WaitOutcomes
          /\ (wpc[i] = "done" /\ rfile[i] = NoFile) => wres[i] = "TimedOut")
  /\ \A i \in Ids : (wpc[i] = "waiting") ~> (wpc[i] = "done")
C23_Witness ==
  /\ wev = [id |-> "a", kind |-> "timeout"] /\ wres["a"] = "TimedOut"
  /\ rfile["a"] = NoFile /\ hwr["a"] = "idle" /\ polls["a"] = MaxPolls

\* the steps of the poll loop
PollEvents == {"return", "timeout", "retry"}

\* C24 (as stated): a producer that has read results/{id}.json while it
\* was incomplete finally returns the complete result.
C24_FinallyComplete ==
  \A i \in Ids : wseen[i] ~> (wres[i] \in {"Success", "Failure"})
\* C24 (amended): a poll that finds results/{id}.json incomplete returns no
\* result and no parse failure: it sleeps one more poll interval while the
\* timeout has not elapsed and returns TimedOut once it has; a result that
\* is returned is the one in the complete file; and the wait ends.
C24_PartialRetried ==
  /\ [][\A i \in Ids :
          (wev'.id = i /\ wev'.kind \in PollEvents /\ rfile[i] = PartialFile)
          => /\ wev'.kind # "return"
             /\ wres'[i] \in {None, "TimedOut"}
             /\ wev'.kind = "retry" <=> polls[i] < MaxPolls
             /\ wev'.kind = "retry"
                => (wpc'[i] = "waiting" /\ polls'[i] = polls[i] + 1)]_vars
  /\ [](\A i \in Ids :
          /\ wres[i] \in WaitOutcomes \cup {None}
          /\ wres[i] \in {"Success", "Failure"}
             => rfile[i] = FullFile(wres[i] = "Success"))
  /\ \A i \in Ids : wseen[i] ~> (wpc[i] = "done")
C24_Witness ==
  /\ wev = [id |-> "a", kind |-> "return"] /\ wseen["a"]
  /\ wres["a"] = "Success" /\ rfile["a"] = FullFile(TRUE) /\ polls["a"] >= 1

\* the messages of the well-formed frames of the script, in order
RECURSIVE GoodMsgs(_)
GoodMsgs(q) ==
  IF q = <<>> THEN <<>>
  ELSE IF Head(q).kind = "good" THEN <<Head(q).msg>> \o GoodMsgs(Tail(q))
  ELSE GoodMsgs(Tail(q))

\* C16: malformed frames are dropped and the stream continues: what is
\* delivered is always a prefix of the well-formed frames written, and once
\* the reader has read all the bytes written, every well-formed frame has
\* been delivered.
C16_StreamContinues ==
  /\ Len(delivered) <= Len(GoodMsgs(script))
  /\ delivered = SubSeq(GoodMsgs(script), 1, Len(delivered))
  /\ StreamRead => delivered = GoodMsgs(script)

\* the paths named in the attachments of the jobs this host has forwarded
ForwardedAttachments == UNION {Attachments(Job(f, used[f])) : f \in fwd}

\* C17: a getFileData request is answered with file content only if its
\* filePath is named in the attachments of a job the host has forwarded;
\* for any other path the reply is a failure carrying no data.
C17_OnlyForwardedAttachments ==
  [][ev' = "getFileData"
     => /\ out'.success = "true"
           => Head(incoming).filePath \in ForwardedAttachments
        /\ Head(incoming).filePath \notin ForwardedAttachments
           => (out'.success = "false" /\ out'.data = None)]_vars

\* C18: the dispatch of a getFileData request for a missing or unreadable
\* file hands exactly one frame to send_message, a fileDataResponse with
\* the request's id, success false and an error and no data, and leaves
\* InFlightTable, jobs/, processing/ and results/ as they were and the
\* poll loop running.
C18_FileFailureReply ==
  [][(ev' = "getFileData"
        /\ Head(incoming).filePath \in {"missing", "unreadable"})
     => (/\ out'.type = "fileDataResponse" /\ out'.id = Head(incoming).id
         /\ out'.success = "false" /\ out'.error # None /\ out'.data = None
         /\ inflight' = inflight /\ store' = store
         /\ up' /\ pc' = "drain")]_vars
C18_Witness ==
  /\ ev = "getFileData" /\ up /\ pc = "drain"
  /\ out = OutFrame("fileDataResponse", "req", "false", "PermissionError", None)
  /\ inflight["a"] = ProcessingPath("a") /\ processing["a"] = Job("a", "a")
  /\ jobs["b"] # NoJob

\* C19: a claim whose rename succeeds leaves in processing/{id}.json the
\* content that was enqueued in the claimed job file, and the claimed file
\* no longer exists in jobs/.
C19_ClaimMoves ==
  [][\A f \in FNames :
       (/\ pc = "loop" /\ ev' = "claim" /\ f \in files /\ f \notin files'
        /\ cur'.path = ProcessingPath(cur'.id))
       => (/\ cur'.id = used[f]
           /\ processing'[used[f]] = Job(f, used[f])
           /\ jobs'[f] = NoJob)]_vars
C19_Witness ==
  /\ ev = "claim" /\ cur.f = "a" /\ cur.path = ProcessingPath("a")
  /\ processing["a"] = Job("a", "a") /\ jobs["a"] = NoJob
  /\ used["a"] = "a"

Ended(c) == cpc[c] = "done" /\ ret[c].kind # "not_connected"
\* C20: every call of request on a connected channel ends, within its
\* timeout, by returning the response that carries its request id, by raising
\* the peer's error or by raising a timeout; after each of these outcomes,
\* and after a send failure, pending_requests holds no entry for its id.
C20_RequestEnds ==
  /\ [](\A c \in Callers :
          /\ cpc[c] = "wait" => elapsed[c] <= MaxTicks
          /\ Ended(c)
             => /\ pending_requests[rid[c]] = NoEntry
                /\ \/ /\ ret[c].kind = "returned"
                      /\ ret[c].value.requestId = rid[c]
                   \/ ret[c].kind = "peer_error"
                   \/ ret[c].kind = "timeout"
                   \/ ret[c].kind = "send_failed")
  /\ \A c \in Callers : (cpc[c] \in {"send", "wait"}) ~> (cpc[c] = "done")

\* C21: correlation ids are strictly increasing, so a new request gets an id
\* greater than every id given before and no two calls in progress share an
\* id; a frame carrying requestId r touches only the pending entry r, which
\* it completes; a frame whose requestId has no pending entry changes no
\* entry and completes no request.
C21_OnlyMatchingCompletes ==
  /\ [](\A c, e \in Callers : (c # e /\ rid[c] # 0) => rid[c] # rid[e])
  /\ [][/\ request_id' >= request_id
        /\ \A c \in Callers :
             (rid'[c] # rid[c] /\ rid'[c] # 0)
             => (rid'[c] > request_id /\ rid'[c] = request_id')
        /\ chin' # NoWsFrame
           => /\ \A r \in RequestIds :
                   pending_requests'[r] # pending_requests[r]
                   => /\ r = chin'.requestId
                      /\ pending_requests[r] # NoEntry
                      /\ pending_requests'[r].set
              /\ (chin'.requestId = 0
                    \/ pending_requests[chin'.requestId] = NoEntry)
                 => pending_requests' = pending_requests
              /\ callVars' = callVars]_vars
C21_Witness ==
  /\ chin = WsFrame("sendResult", 1, NoField) /\ chev = "unknown"
  /\ rid["send_email"] = 1 /\ ret["send_email"].kind = "timeout"
  /\ rid["check_availability"] = 2 /\ cpc["check_availability"] = "wait"
  /\ pending_requests[1] = NoEntry /\ pending_requests[2] = NewEntry

\* C22: listen binds the preferred port if it is free, otherwise the lowest
\* free port among the ports that follow it within the attempt bound, and
\* fails with an error when no port of that range is free (the ports being
\* as the probe found them until the server binds).
C22_ListenLowestFree ==
  [][\A i \in Instances :
       /\ (lpc[i] = "idle" /\ lpc'[i] # "idle")
          => (lpc'[i] = "raised" <=> Expected(InUse) = NoPort)
       /\ (lpc[i] = "started" /\ lpc'[i] # "started" /\ lG[i].quiet)
          => /\ lpc'[i] = "serving"
             /\ port'[i] = lG[i].want]_vars
C22_Witness ==
  /\ lpc["app1"] = "serving" /\ port["app1"] = 2 /\ lG["app1"].quiet
  /\ lG["app1"].want = 2 /\ taken = {0, 1, 3}
  /\ lpc["app2"] = "idle"

\* C25: dispatching a hello frame hands exactly one frame to send_message,
\* a hello_ack; afterwards the host is Connected if that send succeeded and
\* Disconnected if it failed.
C25_HelloAck ==
  [][ev' = "hello"
     => /\ Head(incoming).type = "hello"
        /\ out'.type = "hello_ack"
        /\ sok' \in {"True", "False"}
        /\ connected' <=> sok' = "True"
        /\ inflight' = inflight /\ store' = store]_vars
C25_Witness ==
  /\ ev = "hello" /\ out.type = "hello_ack" /\ sok = "False" /\ ~connected
  /\ seen = "hello" /\ fwd # {}

\* C28: dispatching the result frame for an id removes that id's entry of
\* InFlightTable and leaves every other entry untouched; and when a failed
\* send makes the host Disconnected, no entry for a previously forwarded job
\* remains in the table.
C28_InflightCleared ==
  [][/\ ev' = "result"
        => \A i \in Ids :
             inflight'[i] = IF i = Head(incoming).id THEN NoPath
                            ELSE inflight[i]
     /\ (connected /\ ~connected') => \A i \in Ids : inflight'[i] = NoPath]_vars

InPlace(path) == path.dir = "jobs"
\* C27: a claim calls the rename at most 5 times; when all 5 calls fail and
\* the job file is still in jobs/, the job is forwarded from jobs/ in place,
\* once (a file whose frame was sent is not claimed again); InFlightTable
\* then records the jobs/ path, and dispatching the job's result deletes that
\* jobs/ file.
C27_InPlaceFallback ==
  [][/\ \A f \in FNames :
          (ev' = "claim" /\ cur'.f = f)
          => /\ cur'.tries \in 1..5
             /\ f \notin fwd
             /\ InPlace(cur'.path) <=> cur'.tries = 5 /\ jobs'[f] # NoJob
             /\ InPlace(cur'.path)
                => (cur'.path = JobPath(f) /\ jobs'[f] = jobs[f]
                      /\ cur'.job = jobs[f])
     /\ (pc = "send" /\ InPlace(cur.path) /\ pc' # "send")
        => /\ out' = JobFrame(cur.job)
           /\ sok' = "True" => inflight'[cur.id] = cur.path
     /\ (ev' \in {"result", "result_unwritten"}
           /\ InPlace(inflight[Head(incoming).id]))
        => /\ jobs'[inflight[Head(incoming).id].name] = NoJob
           /\ inflight'[Head(incoming).id] = NoPath]_vars
C27_Witness ==
  /\ ev = "sent" /\ sok = "True" /\ inflight["a"] = JobPath("d1")
  /\ jobs["d1"] = Job("d1", "a") /\ "d1" \in fwd /\ processing["a"] = NoJob

ScanOnlyEvents ==
  {"scan_start", "vanished", "badjson", "scan_abort", "noid", "dedupe",
   "inflight_skip", "claim", "scan_end"}
\* C29: the host goes from Connected to Disconnected only in a step whose
\* send (of a job frame, a hello_ack or a file-data reply) failed; reading a
\* bad job file, a failed claim and a result file that cannot be written
\* leave the connection state as it is.
C29_OnlySendDisconnects ==
  [][/\ (connected /\ ~connected')
        => /\ sok' = "False"
           /\ out'.type \in {"sendEmail", "hello_ack", "fileDataResponse"}
     /\ ev' \in ScanOnlyEvents => connected' = connected
     /\ ev' = "result_unwritten" => connected']_vars
C29_Witness ==
  /\ ev = "getFileData" /\ sok = "False" /\ ~connected
  /\ out.type = "fileDataResponse" /\ seen = "hello" /\ fwd # {}

\* C30: a job file that cannot be parsed, has no id or cannot be claimed
\* never stops the scan: no frame is sent for it and it stays in jobs/, and
\* the scan goes on to the other files it listed, so that a listed
\* well-formed job is not dropped from the scan by a bad file.
C30_BadFileSkipped ==
  [][\A f \in FNames :
       (pc = "loop" /\ f \in files /\ f \notin files'
          /\ jobs[f].id \in BadKinds \cup {NoId})
       => /\ pc' = "loop" /\ out' = NoOut
          /\ jobs'[f] = jobs[f]
          /\ files' = files \ {f}]_vars

====
